---- MODULE Spec2Model ----
(***************************************************************************)
(* The California childcare registry analysis, as a state machine.         *)
(*                                                                         *)
(*   ca_childcare_analysis.py   downloads the two registry datasets,       *)
(*                              filters the low-capacity tiers and runs    *)
(*                              detect_fraud_indicators (fraud_score).     *)
(*   fraud_deep_analysis.py     loads the raw files the first program      *)
(*                              saved, flags shared phones and generic     *)
(*                              names and builds the priority list         *)
(*                              (risk_score).                              *)
(*                                                                         *)
(* Text is a sequence of one-character strings; a missing cell (pandas     *)
(* NaN / None) is the value NaN; a nullable number is <<>> or <<n>>.       *)
(***************************************************************************)
EXTENDS Integers, Sequences, FiniteSets, TLC

VARIABLES
    portal,               \* the registry: dataset name -> rows served by its URL
    capacity_threshold,   \* the threshold __main__ passes: [number |-> n] or [text |-> s]
    tieRule,              \* order the installed sort leaves equal keys in
    replaceRule,          \* what the installed replace() makes of an all-NaN column
    pc,                   \* position in the two programs
    files,                \* raw_<dataset>.csv files on disk
    all_facilities,       \* frames collected by the download loop
    combined,             \* analyze_low_capacity_facilities: concatenated frame
    low_capacity,         \* 0 < capacity < threshold
    suspicious,           \* low capacity, status not LICENSED
    licensed_low_cap,     \* low capacity, status LICENSED
    df,                   \* detect_fraud_indicators: working copy
    multi_lic_facilities, \* detect_fraud_indicators: rows of licensees with 3+ records
    short_lived,          \* detect_fraud_indicators: closed within 24 months
    high_risk,            \* detect_fraud_indicators: fraud_score >= 3
    ddf,                  \* fraud_deep_analysis.main: df
    cacfp,                \* outcome of download_cacfp_data
    rdf,                  \* generate_investigation_report: working copy
    investigation_report, \* generate_investigation_report: risk_score >= 5, sorted
    error,                \* per program, the exception that ended it, "" if none
    previous,             \* what an earlier run of the two programs produced
    inx,                  \* check_facility_reports: the report index of the loop
    requested,            \* check_facility_reports: the indices requested so far
    reports_found,        \* check_facility_reports: the reports collected
    returned,             \* check_facility_reports has returned reports_found
    suspicious_addresses  \* create_address_network_map: groups of 2+ facilities

vars == <<portal, capacity_threshold, tieRule, replaceRule, pc, files, all_facilities, combined, low_capacity,
          suspicious, licensed_low_cap, df, multi_lic_facilities, short_lived,
          high_risk, ddf, cacfp, rdf, investigation_report, error, previous,
          inx, requested, reports_found, returned, suspicious_addresses>>

\* the variables of check_facility_reports
fetchVars == <<inx, requested, reports_found, returned>>

\* the variables of the other programs
analysisVars ==
    <<suspicious_addresses, portal, capacity_threshold, tieRule, replaceRule, pc, files, all_facilities,
      combined, low_capacity, suspicious, licensed_low_cap, df, multi_lic_facilities,
      short_lived, high_risk, ddf, cacfp, rdf, investigation_report, error, previous>>

-----------------------------------------------------------------------------
(* Bounds of the model.                                                    *)

MaxRecords == 5

\* rows of the registry when the two programs are run a second time
MaxRerunRecords == 3

MaxThresholdRecords == 2

MaxAnyOrderRecords == 2

MaxMapRecords == 4

-----------------------------------------------------------------------------
(* Text: str.upper, str.strip, str.replace, str.contains.                  *)

NaN == <<"NaN">>

Null == <<>>

IsNull(x) == x = Null

Val(x) == x[1]

LowerCase ==
    <<"a", "b", "c", "d", "e", "f", "g", "h", "i", "j", "k", "l", "m",
      "n", "o", "p", "q", "r", "s", "t", "u", "v", "w", "x", "y", "z">>

UpperCase ==
    <<"A", "B", "C", "D", "E", "F", "G", "H", "I", "J", "K", "L", "M",
      "N", "O", "P", "Q", "R", "S", "T", "U", "V", "W", "X", "Y", "Z">>

DigitChars == <<"0", "1", "2", "3", "4", "5", "6", "7", "8", "9">>

DigitSet == {DigitChars[i] : i \in 1..10}

IsDigit(c) == c \in DigitSet

DigitValue(c) == (CHOOSE i \in 1..10 : DigitChars[i] = c) - 1

IsUpperLetter(c) == \E i \in 1..26 : UpperCase[i] = c

IsSpace(c) == c = " "

UpperOf == [c \in {LowerCase[i] : i \in 1..26} |-> UpperCase[CHOOSE i \in 1..26 : LowerCase[i] = c]]

UpperChar(c) == IF c \in DOMAIN UpperOf THEN UpperOf[c] ELSE c

\* str.upper() of one cell
StrUpper(s) ==
    IF s = NaN THEN NaN ELSE [i \in 1..Len(s) |-> UpperChar(s[i])] \o <<>>

RECURSIVE LStrip(_)
LStrip(s) == IF s # <<>> /\ IsSpace(Head(s)) THEN LStrip(Tail(s)) ELSE s

RECURSIVE RStrip(_)
RStrip(s) ==
    IF s # <<>> /\ IsSpace(s[Len(s)]) THEN RStrip(SubSeq(s, 1, Len(s) - 1)) ELSE s

\* str.strip() of one cell
StrStrip(s) == IF s = NaN THEN NaN ELSE RStrip(LStrip(s))

\* str.replace(r'\s+', ' ', regex=True): every maximal run of whitespace
\* becomes one space
RECURSIVE CollapseRuns(_)
CollapseRuns(s) ==
    IF s = <<>> THEN <<>>
    ELSE IF IsSpace(Head(s))
         THEN <<" ">> \o CollapseRuns(LStrip(s))
         ELSE <<Head(s)>> \o CollapseRuns(Tail(s))

StrCollapseWs(s) == IF s = NaN THEN NaN ELSE CollapseRuns(s)

\* str.replace(c, '') of one cell
StrRemove(s, c) == IF s = NaN THEN NaN ELSE SelectSeq(s, LAMBDA ch : ch # c)

\* str + str: NaN when either side is NaN
StrCat(a, b) == IF a = NaN \/ b = NaN THEN NaN ELSE a \o b

\* w occurs in s at position i
MatchAt(s, i, w) ==
    /\ i >= 1
    /\ i + Len(w) - 1 <= Len(s)
    /\ \A k \in 1..Len(w) : s[i + k - 1] = w[k]

Contains(s, w) == \E i \in 1..(Len(s) + 1) : MatchAt(s, i, w)

\* first position at or after i that holds no whitespace
RECURSIVE SkipWs(_, _)
SkipWs(s, i) == IF i <= Len(s) /\ IsSpace(s[i]) THEN SkipWs(s, i + 1) ELSE i

\* regex  a\s*(b1|b2|...)  found anywhere in s
ContainsGap(s, a, bs) ==
    \E i \in 1..(Len(s) + 1) :
        /\ MatchAt(s, i, a)
        /\ \E b \in bs : MatchAt(s, SkipWs(s, i + Len(a)), b)

-----------------------------------------------------------------------------
(* Numbers and dates: pd.to_numeric, pd.to_datetime, .dt.year, .dt.days.   *)

AllDigits(s) == s # <<>> /\ \A i \in 1..Len(s) : IsDigit(s[i])

RECURSIVE DigitsValue(_)
DigitsValue(s) ==
    IF s = <<>> THEN 0
    ELSE 10 * DigitsValue(SubSeq(s, 1, Len(s) - 1)) + DigitValue(s[Len(s)])

\* pd.to_numeric(cell, errors='coerce'): a signed integer text is its value,
\* anything else (missing, non-numeric text) is NaN
ToNumeric(s) ==
    IF s = NaN \/ s = <<>> THEN Null
    ELSE IF AllDigits(s) THEN <<DigitsValue(s)>>
    ELSE IF Head(s) = "-" /\ AllDigits(Tail(s)) THEN <<0 - DigitsValue(Tail(s))>>
    ELSE Null

\* .fillna(0).astype(int)
FillNaZero(n) == IF IsNull(n) THEN 0 ELSE Val(n)

LeapYear(y) == (y % 4 = 0 /\ y % 100 # 0) \/ y % 400 = 0

DaysInMonth(y, m) ==
    IF m = 2 THEN (IF LeapYear(y) THEN 29 ELSE 28)
    ELSE IF m \in {4, 6, 9, 11} THEN 30 ELSE 31

RECURSIVE DaysBeforeMonth(_, _)
DaysBeforeMonth(y, m) ==
    IF m <= 1 THEN 0 ELSE DaysBeforeMonth(y, m - 1) + DaysInMonth(y, m - 1)

\* days from 0001-01-01 to the date, the proleptic Gregorian ordinal
DayNumber(d) ==
    LET y == d[1] - 1
    IN  365 * y + (y \div 4) - (y \div 100) + (y \div 400)
        + DaysBeforeMonth(d[1], d[2]) + d[3]

\* pd.to_datetime(cell, errors='coerce') of an ISO text YYYY-MM-DD; a missing
\* cell, a text of another shape or an impossible date is NaT
ToDatetime(s) ==
    IF s = NaN THEN Null
    ELSE IF /\ Len(s) = 10
            /\ s[5] = "-" /\ s[8] = "-"
            /\ AllDigits(SubSeq(s, 1, 4))
            /\ AllDigits(SubSeq(s, 6, 7))
            /\ AllDigits(SubSeq(s, 9, 10))
         THEN LET y == DigitsValue(SubSeq(s, 1, 4))
                  m == DigitsValue(SubSeq(s, 6, 7))
                  d == DigitsValue(SubSeq(s, 9, 10))
              IN  IF m \in 1..12 /\ y >= 1 /\ d >= 1 /\ d <= DaysInMonth(y, m)
                  THEN <<y, m, d>> ELSE Null
         ELSE Null

\* .dt.year
DtYear(d) == IF IsNull(d) THEN Null ELSE <<d[1]>>

\* ((closed - first).dt.days / 30).round(1), held in tenths of a month: the
\* nearest integer to days / 3 (days / 3 is never halfway between two integers)
MonthsBetween(first, closed) ==
    IF IsNull(first) \/ IsNull(closed) THEN Null
    ELSE <<(DayNumber(closed) - DayNumber(first) + 1) \div 3>>

\* comparisons of a nullable number: NaN compares False
NumGE(n, k) == ~IsNull(n) /\ Val(n) >= k
NumLE(n, k) == ~IsNull(n) /\ Val(n) <= k
NumLT(n, k) == ~IsNull(n) /\ Val(n) < k
NumGT(n, k) == ~IsNull(n) /\ Val(n) > k

-----------------------------------------------------------------------------
(* The registry rows the portal may serve.                                 *)

DATA_URLS == <<"child_care_centers", "family_child_care_homes">>

\* a licensed family home opened in 2021, capacity 8, nothing shared
HomeJane ==
    [dataset |-> "family_child_care_homes",
     facility_address |-> <<"1", " ", "M", "A", "I", "N">>,
     facility_city |-> <<"S", "F">>,
     facility_zip |-> <<"9", "4", "1", "0", "1">>,
     licensee |-> <<"S", "M", "I", "T", "H", ",", " ", "J", "A", "N", "E">>,
     license_first_date |-> <<"2", "0", "2", "1", "-", "0", "3", "-", "0", "1">>,
     closed_date |-> NaN,
     facility_status |-> <<"L", "I", "C", "E", "N", "S", "E", "D">>,
     facility_capacity |-> <<"8">>,
     facility_telephone_number |-> <<"5", "5", "5", "-", "0", "1", "0", "-", "0", "0", "0", "1">>]

\* a center opened 2020-06-01 and closed 2021-01-01, capacity 14, a comma set
\* off by spaces in its address
CenterDoe ==
    [dataset |-> "child_care_centers",
     facility_address |-> <<"9", " ", "O", "A", "K", " ", ",", " ", "B">>,
     facility_city |-> <<"L", "A">>,
     facility_zip |-> <<"9", "0", "0", "0", "1">>,
     licensee |-> <<"D", "O", "E", " ", "I", "N", "C", ".">>,
     license_first_date |-> <<"2", "0", "2", "0", "-", "0", "6", "-", "0", "1">>,
     closed_date |-> <<"2", "0", "2", "1", "-", "0", "1", "-", "0", "1">>,
     facility_status |-> <<"C", "L", "O", "S", "E", "D">>,
     facility_capacity |-> <<"1", "4">>,
     facility_telephone_number |-> <<"(", "5", "5", "5", ")", " ", "0", "1", "0", "-", "0", "0", "0", "2">>]

\* an inactive pre-2020 center, capacity not numeric, the phone of CenterDoe
CenterKidz ==
    [dataset |-> "child_care_centers",
     facility_address |-> <<"5", " ", "E", "L", "M">>,
     facility_city |-> <<"L", "A">>,
     facility_zip |-> <<"9", "0", "0", "0", "2">>,
     licensee |-> <<"A", "B", "C", " ", "K", "I", "D", "Z", " ", "L", "L", "C">>,
     license_first_date |-> <<"2", "0", "1", "9", "-", "0", "5", "-", "0", "1">>,
     closed_date |-> NaN,
     facility_status |-> <<"I", "N", "A", "C", "T", "I", "V", "E">>,
     facility_capacity |-> <<"n", "/", "a">>,
     facility_telephone_number |-> <<"5", "5", "5", ".", "0", "1", "0", ".", "0", "0", "0", "2">>]

\* the address and licensee of CenterKidz in another spelling; closed before
\* its license date
CenterKidzTwin ==
    [dataset |-> "child_care_centers",
     facility_address |-> <<" ", "5", " ", " ", "e", "l", "m", ".">>,
     facility_city |-> <<"l", "a", " ">>,
     facility_zip |-> <<"9", "0", "0", "0", "2", "-", "1", "1">>,
     licensee |-> <<"a", "b", "c", " ", "k", "i", "d", "z", " ", "l", "l", "c", " ">>,
     license_first_date |-> <<"2", "0", "2", "1", "-", "0", "3", "-", "0", "1">>,
     closed_date |-> <<"2", "0", "2", "0", "-", "0", "6", "-", "0", "1">>,
     facility_status |-> <<"C", "l", "o", "s", "e", "d">>,
     facility_capacity |-> <<"-", "3">>,
     facility_telephone_number |-> NaN]

\* a row with every text cell but the city missing, an unparseable date and a
\* short phone written as a number
HomeBlank ==
    [dataset |-> "family_child_care_homes",
     facility_address |-> NaN,
     facility_city |-> <<"S", "F">>,
     facility_zip |-> NaN,
     licensee |-> NaN,
     license_first_date |-> <<"U", "N", "K", "N", "O", "W", "N">>,
     closed_date |-> NaN,
     facility_status |-> NaN,
     facility_capacity |-> <<"6">>,
     facility_telephone_number |-> <<"5", "5", "5", "0", "1", "0", "0", "0", "0">>]

Catalog == {HomeJane, CenterDoe, CenterKidz, CenterKidzTwin, HomeBlank}

SeqsUpTo(S, n) == UNION {[1..k -> S] : k \in 0..n}

\* the rows of one dataset, in the order the registry lists them
RowsOf(snapshot, t) == SelectSeq(snapshot, LAMBDA r : r.dataset = t)

-----------------------------------------------------------------------------
(* Frames: a DataFrame is a sequence of rows, a row a record of cells.     *)

\* the row with the columns of new added or overwritten
WithCols(r, new) == new @@ r

\* a frame given row by row, as the sequence of its rows
Frame(rows) == rows \o <<>>

Col(frame, f) == [i \in 1..Len(frame) |-> frame[i][f]]

RECURSIVE Flatten(_)
Flatten(frames) ==
    IF frames = <<>> THEN <<>> ELSE Head(frames) \o Flatten(Tail(frames))

\* pd.concat(frames, ignore_index=True): the rows in order, renumbered
Concat(frames) ==
    LET rows == Flatten(frames)
    IN  Frame([i \in 1..Len(rows) |-> WithCols(rows[i], [idx |-> i])])

\* pd.read_csv of a dataset's file plus the facility_type column
ReadCsv(rows, t) ==
    Frame([i \in 1..Len(rows) |-> WithCols(rows[i], [facility_type |-> t])])

\* a column read_csv found no text in is float64, and its .str accessor raises
\* AttributeError
StrAccessorRaises(frame, f) ==
    /\ frame # <<>>
    /\ \A i \in 1..Len(frame) : frame[i][f] = NaN

\* value_counts(): how many rows hold v in column f (NaN is never counted)
CountOf(frame, f, v) ==
    IF v = NaN THEN 0 ELSE Cardinality({i \in 1..Len(frame) : frame[i][f] = v})

TextLICENSED == <<"L", "I", "C", "E", "N", "S", "E", "D">>

TextCLOSED == <<"C", "L", "O", "S", "E", "D">>

TextINACTIVE == <<"I", "N", "A", "C", "T", "I", "V", "E">>

-----------------------------------------------------------------------------
(* ca_childcare_analysis.py                                                *)

CapacityThreshold == 14

\* combined[capacity_col] = pd.to_numeric(..., errors='coerce').fillna(0).astype(int)
CoerceCapacity(frame) ==
    Frame([i \in 1..Len(frame) |->
             WithCols(frame[i],
                      [facility_capacity |->
                          FillNaZero(ToNumeric(frame[i].facility_capacity))])])

\* the filter with the threshold itself counted as low capacity
LowCapacityInclusive(frame, threshold) ==
    SelectSeq(frame, LAMBDA r : r.facility_capacity > 0
                                /\ r.facility_capacity <= threshold)

\* combined[(capacity > 0) & (capacity < capacity_threshold)]
LowCapacity(frame, threshold) ==
    SelectSeq(frame, LAMBDA r : r.facility_capacity > 0
                                /\ r.facility_capacity < threshold)

\* low_capacity[~status.str.upper().isin(['LICENSED'])]
NonLicensed(frame) ==
    SelectSeq(frame, LAMBDA r : ~(StrUpper(r.facility_status) \in {TextLICENSED}))

\* low_capacity[status.str.upper() == 'LICENSED']
Licensed(frame) ==
    SelectSeq(frame, LAMBDA r : StrUpper(r.facility_status) = TextLICENSED)

\* download_facility_data for the i-th entry of DATA_URLS, and the loop body
\* around it: the request succeeds (the raw file is saved and read) or raises
\* RequestException (an empty frame comes back); an empty frame is skipped
DownloadFacilityData(i) ==
    /\ pc = <<"download", i>>
    /\ \E ok \in BOOLEAN :
         LET t == DATA_URLS[i]
             frame == IF ok THEN ReadCsv(portal[t], t) ELSE <<>>
         IN  /\ files' = IF ok THEN files \cup {t} ELSE files
             /\ all_facilities' =
                  IF frame = <<>> THEN all_facilities ELSE Append(all_facilities, frame)
    /\ pc' = IF i < Len(DATA_URLS) THEN <<"download", i + 1>> ELSE <<"analyze">>
    /\ UNCHANGED <<previous, fetchVars, suspicious_addresses, capacity_threshold, replaceRule, multi_lic_facilities, portal, tieRule, combined, low_capacity, suspicious,
                   licensed_low_cap, df, short_lived, high_risk, ddf, cacfp, rdf,
                   investigation_report, error>>

\* analyze_low_capacity_facilities after its download loop (counties=None)
AnalyzeLowCapacityFacilities ==
    /\ pc = <<"analyze">>
    /\ IF all_facilities = <<>>
       THEN \* return pd.DataFrame()
            /\ pc' = <<"returned_frame">>
            /\ UNCHANGED <<combined, low_capacity, suspicious, licensed_low_cap, error>>
       ELSE LET frame == CoerceCapacity(Concat(all_facilities))
                low == LowCapacity(frame, capacity_threshold.number)
            IN  IF "number" \notin DOMAIN capacity_threshold
                THEN \* capacity < capacity_threshold cannot compare int64 with str
                     /\ pc' = <<"ca_raised">>
                     /\ error' = [error EXCEPT !.ca = "TypeError"]
                     /\ UNCHANGED <<combined, low_capacity, suspicious,
                                    licensed_low_cap>>
                ELSE IF StrAccessorRaises(frame, "facility_status")
                THEN /\ pc' = <<"ca_raised">>
                     /\ error' = [error EXCEPT !.ca = "AttributeError"]
                     /\ UNCHANGED <<combined, low_capacity, suspicious,
                                    licensed_low_cap>>
                ELSE /\ pc' = <<"returned_pair">>
                     /\ combined' = frame
                     /\ low_capacity' = low
                     /\ suspicious' = NonLicensed(low)
                     /\ licensed_low_cap' = Licensed(low)
                     /\ UNCHANGED error
    /\ UNCHANGED <<previous, fetchVars, suspicious_addresses, capacity_threshold, replaceRule, multi_lic_facilities, portal, tieRule, files, all_facilities, df, short_lived,
                   high_risk, ddf, cacfp, rdf, investigation_report>>

\* __main__: low_cap_results, all_facilities = analyze_low_capacity_facilities(...)
\* unpacks the returned value into two names; an empty DataFrame iterates over
\* no column and the unpacking raises ValueError
MainUnpack ==
    /\ pc \in {<<"returned_frame">>, <<"returned_pair">>}
    /\ IF pc = <<"returned_frame">>
       THEN pc' = <<"ca_raised">> /\ error' = [error EXCEPT !.ca = "ValueError"]
       ELSE /\ pc' = IF combined # <<>> THEN <<"detect">> ELSE <<"ca_done">>
            /\ UNCHANGED error
    /\ UNCHANGED <<previous, fetchVars, suspicious_addresses, capacity_threshold, replaceRule, multi_lic_facilities, portal, tieRule, files, all_facilities, combined, low_capacity,
                   suspicious, licensed_low_cap, df, short_lived, high_risk, ddf,
                   cacfp, rdf, investigation_report>>

-----------------------------------------------------------------------------
(* detect_fraud_indicators                                                 *)

\* address.str.upper().str.strip(), then \s+ -> ' ', then '.' and ',' removed
NormalizeAddress(address) ==
    StrRemove(StrRemove(StrCollapseWs(StrStrip(StrUpper(address))), "."), ",")

\* address_normalized + ', ' + city.str.upper().str.strip()
FullAddress(address_normalized, city) ==
    StrCat(StrCat(address_normalized, <<",", " ">>), StrStrip(StrUpper(city)))

\* licensee.str.upper().str.strip()
NormalizeLicensee(licensee) == StrStrip(StrUpper(licensee))

\* the weight added under the mask, the label left out
AddFlagScoreOnly(frame, hits, weight, label) ==
    Frame([i \in 1..Len(frame) |->
             IF i \in hits
             THEN WithCols(frame[i], [fraud_score |-> frame[i].fraud_score + weight])
             ELSE frame[i]])

\* df.loc[mask, 'fraud_score'] += weight; df.loc[mask, 'fraud_flags'] += label
AddFlag(frame, hits, weight, label) ==
    Frame([i \in 1..Len(frame) |->
             IF i \in hits
             THEN WithCols(frame[i],
                           [fraud_score |-> frame[i].fraud_score + weight,
                            fraud_flags |-> Append(frame[i].fraud_flags, label)])
             ELSE frame[i]])

\* the duplicates as duplicated() marks them: every occurrence but the first
DuplicateAddressMaskKeepFirst(frame, i) ==
    /\ frame[i].full_address # NaN
    /\ \E j \in 1..(i - 1) : frame[j].full_address = frame[i].full_address

\* the count taken over every row, the rows without an address among them
DuplicateAddressMaskMissingToo(frame, i) ==
    Cardinality({j \in 1..Len(frame) : frame[j].full_address = frame[i].full_address}) > 1

\* full_address.isin(address_counts[address_counts > 1].index)
DuplicateAddressMask(frame, i) ==
    CountOf(frame, "full_address", frame[i].full_address) > 1

\* licensee_normalized.isin(licensee_counts[licensee_counts >= 3].index)
MultiFacilityMask(frame, i) ==
    CountOf(frame, "licensee_normalized", frame[i].licensee_normalized) >= 3

\* every multi-facility licensee scored, not only those with five records
HighVolumeMaskFromThree(frame, i) ==
    CountOf(frame, "licensee_normalized", frame[i].licensee_normalized) >= 3

\* licensee_normalized.isin(licensee_counts[licensee_counts >= 5].index)
HighVolumeMask(frame, i) ==
    CountOf(frame, "licensee_normalized", frame[i].licensee_normalized) >= 5

\* the window opened one year late
CovidMaskAfter2020(r) == NumGT(r.license_year, 2020) /\ NumLE(r.license_year, 2022)

\* the mask taken from the covid_era listing, which keeps LICENSED records only
CovidMaskLicensed(r) ==
    /\ NumGE(r.license_year, 2020) /\ NumLE(r.license_year, 2022)
    /\ StrUpper(r.facility_status) = TextLICENSED

\* (license_year >= 2020) & (license_year <= 2022)
CovidMask(r) == NumGE(r.license_year, 2020) /\ NumLE(r.license_year, 2022)

\* (license_year >= 2020) & (facility_status.str.upper() == 'CLOSED')
CovidOpenedClosedMask(r) ==
    NumGE(r.license_year, 2020) /\ StrUpper(r.facility_status) = TextCLOSED

\* covid_opened_closed['months_operated'] < 24
ShortLivedMask(r) == NumLT(r.months_operated, 240)

\* the copy that keeps a fraud_score and a fraud_flags column the frame
\* already has
NormalizedCopyKeepScore(frame) ==
    Frame([i \in 1..Len(frame) |->
             LET norm == NormalizeAddress(frame[i].facility_address)
                 had == "fraud_score" \in DOMAIN frame[i]
             IN  WithCols(frame[i],
                          [address_normalized |-> norm,
                           full_address |-> FullAddress(norm, frame[i].facility_city),
                           fraud_score |-> IF had THEN frame[i].fraud_score ELSE 0,
                           fraud_flags |-> IF had THEN frame[i].fraud_flags ELSE <<>>])])

\* lines 205-216: df.copy() with address_normalized, full_address and the
\* zeroed fraud_score and fraud_flags
NormalizedCopy(frame) ==
    Frame([i \in 1..Len(frame) |->
             LET norm == NormalizeAddress(frame[i].facility_address)
             IN  WithCols(frame[i],
                          [address_normalized |-> norm,
                           full_address |-> FullAddress(norm, frame[i].facility_city),
                           fraud_score |-> 0,
                           fraud_flags |-> <<>>])])

\* df['licensee_normalized'] = df['licensee'].str.upper().str.strip()
WithLicenseeKey(frame) ==
    Frame([i \in 1..Len(frame) |->
             WithCols(frame[i],
                      [licensee_normalized |-> NormalizeLicensee(frame[i].licensee)])])

\* pd.to_datetime(df[col], errors='coerce') of a column of a frame: a column
\* that is datetime64 already is returned as it is. The two date columns are
\* datetime64 exactly in a frame that detect_fraud_indicators has parsed them
\* in before, which has the year column written next to each.
ToDatetimeColumn(r, col, year_col) ==
    IF year_col \in DOMAIN r THEN r[col] ELSE ToDatetime(r[col])

\* license_first_date parsed in place, and license_year
WithLicenseYear(frame) ==
    Frame([i \in 1..Len(frame) |->
             LET d == ToDatetimeColumn(frame[i], "license_first_date", "license_year")
             IN  WithCols(frame[i], [license_first_date |-> d,
                                     license_year |-> DtYear(d)])])

\* closed_date parsed in place, and closed_year
WithClosedYear(frame) ==
    Frame([i \in 1..Len(frame) |->
             LET d == ToDatetimeColumn(frame[i], "closed_date", "closed_year")
             IN  WithCols(frame[i], [closed_date |-> d, closed_year |-> DtYear(d)])])

\* covid_opened_closed with its months_operated column, cut to the rows that
\* operated less than 24 months
ShortLived(frame) ==
    LET selected == SelectSeq(frame, CovidOpenedClosedMask)
        covid_opened_closed ==
            Frame([k \in 1..Len(selected) |->
                     WithCols(selected[k],
                              [months_operated |->
                                  MonthsBetween(selected[k].license_first_date,
                                                selected[k].closed_date)])])
    IN  SelectSeq(covid_opened_closed, ShortLivedMask)

\* the duplicate-address step run twice over the same frame
FlagDuplicateAddressesTwice(frame) ==
    LET hits == {i \in 1..Len(frame) : DuplicateAddressMask(frame, i)}
    IN  AddFlag(AddFlag(frame, hits, 2, "DUPLICATE_ADDRESS"),
                hits, 2, "DUPLICATE_ADDRESS")

\* lines 236-237
FlagDuplicateAddresses(frame) ==
    AddFlag(frame, {i \in 1..Len(frame) : DuplicateAddressMask(frame, i)},
            2, "DUPLICATE_ADDRESS")

\* lines 257-266: the 5+ licensees are flagged inside the branch taken when
\* some licensee has 3+ facilities
\* multi_lic_facilities = df[licensee_normalized.isin(multi_facility_licensees.index)],
\* written to fraud_flag_multi_facility_licensees.csv; nothing is written when
\* no licensee has three records
MultiLicFacilities(frame) ==
    SelectSeq(frame, LAMBDA r : CountOf(frame, "licensee_normalized", r.licensee_normalized) >= 3)

\* the licensee flag withheld from the rows an earlier flag already marked
FlagHighVolumeUnlessFlagged(frame) ==
    AddFlag(frame, {i \in 1..Len(frame) : HighVolumeMask(frame, i) /\ frame[i].fraud_score = 0},
            1, "HIGH_VOLUME_LICENSEE")

FlagHighVolumeLicensees(frame) ==
    IF \E i \in 1..Len(frame) : MultiFacilityMask(frame, i)
    THEN AddFlag(frame, {i \in 1..Len(frame) : HighVolumeMask(frame, i)},
                 1, "HIGH_VOLUME_LICENSEE")
    ELSE frame

\* the COVID-era flag weighed as in the investigation report
FlagCovidEraWeightTwo(frame) ==
    AddFlag(frame, {i \in 1..Len(frame) : CovidMask(frame[i])},
            2, "COVID_ERA_LICENSE")

\* lines 296-298
FlagCovidEra(frame) ==
    AddFlag(frame, {i \in 1..Len(frame) : CovidMask(frame[i])},
            1, "COVID_ERA_LICENSE")

\* the short-lived flag weighed as in the investigation report
FlagShortLivedWeightThree(frame) ==
    LET short == ShortLived(frame)
    IN  AddFlag(frame,
                {i \in 1..Len(frame) :
                    \E k \in 1..Len(short) : short[k].idx = frame[i].idx},
                3, "SHORT_LIVED")

\* lines 335-337: df.index.isin(short_lived.index)
FlagShortLived(frame) ==
    LET short == ShortLived(frame)
    IN  AddFlag(frame,
                {i \in 1..Len(frame) :
                    \E k \in 1..Len(short) : short[k].idx = frame[i].idx},
                2, "SHORT_LIVED")

\* detect_fraud_indicators as one function of the frame it is passed, the
\* frame's string columns being of object dtype
DetectFraudIndicators(frame) ==
    FlagShortLived(WithClosedYear(
        FlagCovidEra(WithLicenseYear(
            FlagHighVolumeLicensees(WithLicenseeKey(
                FlagDuplicateAddresses(NormalizedCopy(frame))))))))

\* the fraud detection run on the low-capacity result instead of on all
\* facilities
DetectNormalizeLowCapacity ==
    /\ pc = <<"detect">>
    /\ IF \/ StrAccessorRaises(low_capacity, "facility_address")
          \/ StrAccessorRaises(low_capacity, "facility_city")
       THEN /\ pc' = <<"ca_raised">>
            /\ error' = [error EXCEPT !.ca = "AttributeError"]
            /\ UNCHANGED df
       ELSE /\ pc' = <<"flag1">>
            /\ df' = NormalizedCopy(low_capacity)
            /\ UNCHANGED error
    /\ UNCHANGED <<previous, fetchVars, suspicious_addresses, capacity_threshold, replaceRule, multi_lic_facilities, portal, tieRule, files, all_facilities, combined, low_capacity,
                   suspicious, licensed_low_cap, high_risk, short_lived, ddf, cacfp,
                   rdf, investigation_report>>

\* detect_fraud_indicators without df = df.copy(): the columns and the zeroed
\* score are written on the frame of the caller
DetectNormalizeInPlace ==
    /\ pc = <<"detect">>
    /\ IF \/ StrAccessorRaises(combined, "facility_address")
          \/ StrAccessorRaises(combined, "facility_city")
       THEN /\ pc' = <<"ca_raised">>
            /\ error' = [error EXCEPT !.ca = "AttributeError"]
            /\ UNCHANGED <<df, combined>>
       ELSE /\ pc' = <<"flag1">>
            /\ df' = NormalizedCopy(combined)
            /\ combined' = df'
            /\ UNCHANGED error
    /\ UNCHANGED <<previous, fetchVars, suspicious_addresses, capacity_threshold, replaceRule, multi_lic_facilities, portal,
                   tieRule, files, all_facilities, low_capacity, suspicious,
                   licensed_low_cap, high_risk, short_lived, ddf, cacfp, rdf,
                   investigation_report>>

\* lines 204-216: the copy, the address columns and the zeroed score
DetectNormalize ==
    /\ pc = <<"detect">>
    /\ IF \/ StrAccessorRaises(combined, "facility_address")
          \/ StrAccessorRaises(combined, "facility_city")
       THEN /\ pc' = <<"ca_raised">>
            /\ error' = [error EXCEPT !.ca = "AttributeError"]
            /\ UNCHANGED df
       ELSE /\ pc' = <<"flag1">>
            /\ df' = NormalizedCopy(combined)
            /\ UNCHANGED error
    /\ UNCHANGED <<previous, fetchVars, suspicious_addresses, capacity_threshold, replaceRule, multi_lic_facilities, portal, tieRule, files, all_facilities, combined, low_capacity,
                   suspicious, licensed_low_cap, high_risk, short_lived, ddf, cacfp,
                   rdf, investigation_report>>

\* FLAG 1, lines 224-245
DetectDuplicateAddresses ==
    /\ pc = <<"flag1">>
    /\ df' = FlagDuplicateAddresses(df)
    /\ pc' = <<"flag2">>
    /\ UNCHANGED <<previous, fetchVars, suspicious_addresses, capacity_threshold, replaceRule, multi_lic_facilities, portal, tieRule, files, all_facilities, combined, low_capacity,
                   suspicious, licensed_low_cap, high_risk, short_lived, ddf, cacfp,
                   rdf, investigation_report, error>>

\* FLAG 2, lines 253-274
DetectMultiFacilityLicensees ==
    /\ pc = <<"flag2">>
    /\ IF StrAccessorRaises(df, "licensee")
       THEN /\ pc' = <<"ca_raised">>
            /\ error' = [error EXCEPT !.ca = "AttributeError"]
            /\ UNCHANGED <<df, multi_lic_facilities>>
       ELSE /\ df' = FlagHighVolumeLicensees(WithLicenseeKey(df))
            /\ multi_lic_facilities' = MultiLicFacilities(df')
            /\ pc' = <<"flag3">>
            /\ UNCHANGED error
    /\ UNCHANGED <<previous, fetchVars, suspicious_addresses, capacity_threshold, replaceRule, portal, tieRule, files, all_facilities, combined, low_capacity,
                   suspicious, licensed_low_cap, high_risk, short_lived, ddf, cacfp,
                   rdf, investigation_report>>

\* FLAG 3, lines 282-301
DetectCovidEraLicenses ==
    /\ pc = <<"flag3">>
    /\ IF StrAccessorRaises(df, "facility_status")
       THEN /\ pc' = <<"ca_raised">>
            /\ error' = [error EXCEPT !.ca = "AttributeError"]
            /\ UNCHANGED df
       ELSE /\ df' = FlagCovidEra(WithLicenseYear(df))
            /\ pc' = <<"flag4">>
            /\ UNCHANGED error
    /\ UNCHANGED <<previous, fetchVars, suspicious_addresses, capacity_threshold, replaceRule, multi_lic_facilities, portal, tieRule, files, all_facilities, combined, low_capacity,
                   suspicious, licensed_low_cap, high_risk, short_lived, ddf, cacfp,
                   rdf, investigation_report>>

\* FLAG 4, lines 309-337
DetectShortLived ==
    /\ pc = <<"flag4">>
    /\ short_lived' = ShortLived(WithClosedYear(df))
    /\ df' = FlagShortLived(WithClosedYear(df))
    /\ pc' = <<"high_risk">>
    /\ UNCHANGED <<previous, fetchVars, suspicious_addresses, capacity_threshold, replaceRule, multi_lic_facilities, portal, tieRule, files, all_facilities, combined, low_capacity,
                   suspicious, licensed_low_cap, high_risk, ddf, cacfp, rdf,
                   investigation_report, error>>

\* df[df['fraud_score'] >= 3]
HighRiskOf(frame) == SelectSeq(frame, LAMBDA r : r.fraud_score >= 3)

\* lines 346-392
DetectHighRisk ==
    /\ pc = <<"high_risk">>
    /\ high_risk' = HighRiskOf(df)
    /\ pc' = <<"ca_done">>
    /\ UNCHANGED <<previous, fetchVars, suspicious_addresses, capacity_threshold, replaceRule, multi_lic_facilities, portal, tieRule, files, all_facilities, combined, low_capacity,
                   suspicious, licensed_low_cap, df, short_lived, ddf, cacfp, rdf,
                   investigation_report, error>>

-----------------------------------------------------------------------------
(* fraud_deep_analysis.py                                                  *)

\* load_data: both raw files are read, or FileNotFoundError makes it return
\* an empty frame
LoadedFrame ==
    IF \A i \in 1..Len(DATA_URLS) : DATA_URLS[i] \in files
    THEN Concat(Frame([i \in 1..Len(DATA_URLS) |->
                         ReadCsv(portal[DATA_URLS[i]], DATA_URLS[i])]))
    ELSE <<>>

\* the rows of a loaded frame that came from the file of dataset t
FileRows(frame, t) == {i \in 1..Len(frame) : frame[i].facility_type = t}

\* the dtype read_csv gives the phone column of one file: text when a cell is
\* not a number (or there is no row), int64 when every cell is a number,
\* float64 when every cell is a number or missing
ReadDtype(frame, t) ==
    LET cells == {frame[i].facility_telephone_number : i \in FileRows(frame, t)}
    IN  IF cells = {} \/ \E c \in cells : c # NaN /\ ~AllDigits(c) THEN "object"
        ELSE IF NaN \in cells THEN "float64"
        ELSE "int64"

\* pd.concat: a cell keeps the type it was read with, but whole numbers
\* concatenated with a float64 column become floats
ConcatDtype(frame, i) ==
    LET own == ReadDtype(frame, frame[i].facility_type)
    IN  IF own = "int64"
           /\ \E j \in 1..Len(frame) : ReadDtype(frame, frame[j].facility_type) = "float64"
        THEN "float64"
        ELSE own

RECURSIVE StripZeros(_)
\* the decimal digits of the number a text of digits was read as
StripZeros(s) ==
    IF Len(s) > 1 /\ Head(s) = "0" THEN StripZeros(Tail(s)) ELSE s

\* astype(str) of a phone cell: a text is itself, a whole number its digits,
\* a float its digits and '.0', a missing cell 'nan'
PhoneText(phone, dtype) ==
    IF phone = NaN THEN <<"n", "a", "n">>
    ELSE IF dtype = "object" THEN phone
    ELSE IF dtype = "int64" THEN StripZeros(phone)
    ELSE StripZeros(phone) \o <<".", "0">>

\* .str.replace(r'[^\d]', ''), then '' and 'nan' become NaN
PhoneClean(phone) ==
    LET digits == IF phone = NaN THEN <<>> ELSE SelectSeq(phone, IsDigit)
    IN  IF digits = <<>> THEN NaN ELSE digits

\* df[df['phone_clean'].str.len() >= 10]['phone_clean']
ValidPhone(phone_clean) == phone_clean # NaN /\ Len(phone_clean) >= 10

\* phone_counts[phone] of the valid phones
PhoneCount(frame, phone_clean) ==
    IF ValidPhone(phone_clean) THEN CountOf(frame, "phone_clean", phone_clean) ELSE 0

\* the flag taken from dup_phones (phone_counts > 1) instead of suspicious_phones
SharedPhoneMaskDupPhones(frame, i) == PhoneCount(frame, frame[i].phone_clean) > 1

\* phone_clean.isin(phone_counts[phone_counts >= 3].index)
SharedPhoneMask(frame, i) == PhoneCount(frame, frame[i].phone_clean) >= 3

\* regex ^[A-Z]\s*&\s*[A-Z]\s
InitialsPattern(s) ==
    /\ s # <<>>
    /\ IsUpperLetter(s[1])
    /\ LET a == SkipWs(s, 2)
       IN  /\ a <= Len(s) /\ s[a] = "&"
           /\ LET b == SkipWs(s, a + 1)
              IN  /\ b + 1 <= Len(s)
                  /\ IsUpperLetter(s[b])
                  /\ IsSpace(s[b + 1])

\* licensee_clean.str.contains(pattern, regex=True, na=False) for any of
\* suspicious_patterns
GenericName(licensee_clean) ==
    /\ licensee_clean # NaN
    /\ \/ InitialsPattern(licensee_clean)
       \/ Contains(licensee_clean, <<"L", "E", "A", "R", "N", "I", "N", "G", " ", "C", "E", "N", "T", "E", "R">>)
       \/ Contains(licensee_clean, <<"C", "H", "I", "L", "D", " ", "D", "E", "V", "E", "L", "O", "P", "M", "E", "N", "T">>)
       \/ ContainsGap(licensee_clean, <<"L", "I", "T", "T", "L", "E">>,
                      {<<"O", "N", "E", "S">>, <<"A", "N", "G", "E", "L", "S">>,
                       <<"S", "T", "A", "R", "S">>, <<"K", "I", "D", "S">>})
       \/ MatchAt(licensee_clean, 1, <<"A", "B", "C">>)
       \/ MatchAt(licensee_clean, 1, <<"1", "2", "3">>)
       \/ Contains(licensee_clean, <<"K", "I", "D", "Z">>)
       \/ Contains(licensee_clean, <<"K", "I", "D", "D", "S">>)
       \/ Contains(licensee_clean, <<"K", "I", "D", "D", "Z">>)
       \/ ContainsGap(licensee_clean, <<"A", "C", "A", "D", "E", "M", "Y">>, {<<"L", "L", "C">>})
       \/ ContainsGap(licensee_clean, <<"B", "R", "I", "G", "H", "T">>,
                      {<<"S", "T", "A", "R", "T">>, <<"F", "U", "T", "U", "R", "E">>, <<"H", "O", "R", "I", "Z", "O", "N">>})

\* df['phone_clean']
WithPhoneClean(frame) ==
    Frame([i \in 1..Len(frame) |->
             WithCols(frame[i],
                      [phone_clean |-> PhoneClean(PhoneText(frame[i].facility_telephone_number,
                                                            ConcatDtype(frame, i)))])])

\* df['flag_shared_phone']
WithSharedPhoneFlag(frame) ==
    Frame([i \in 1..Len(frame) |->
             WithCols(frame[i], [flag_shared_phone |-> SharedPhoneMask(frame, i)])])

RECURSIVE RemoveAll(_, _)
\* str.replace(w, ''): every occurrence of w, found from the left, is removed
RemoveAll(s, w) ==
    IF s = <<>> THEN <<>>
    ELSE IF MatchAt(s, 1, w) THEN RemoveAll(SubSeq(s, Len(w) + 1, Len(s)), w)
    ELSE <<Head(s)>> \o RemoveAll(Tail(s), w)

\* the suffixes extract_person_name removes, in its order
BusinessSuffixes ==
    <<<<" ", "L", "L", "C">>,
      <<" ", "I", "N", "C">>,
      <<" ", "I", "N", "C", ".">>,
      <<" ", "C", "O", "R", "P">>,
      <<" ", "C", "O", "R", "P", "O", "R", "A", "T", "I", "O", "N">>,
      <<" ", "L", ".", "L", ".", "C", ".">>,
      <<" ", "L", ".", "L", ".", "C">>>>

RECURSIVE RemoveSuffixes(_, _)
\* for suffix in [...]: licensee = licensee.replace(suffix, '')
RemoveSuffixes(s, suffixes) ==
    IF suffixes = <<>> THEN s
    ELSE RemoveSuffixes(RemoveAll(s, Head(suffixes)), Tail(suffixes))

RECURSIVE DropWord(_)
DropWord(s) == IF s # <<>> /\ ~IsSpace(Head(s)) THEN DropWord(Tail(s)) ELSE s

RECURSIVE TokenCount(_)
\* len(licensee.split())
TokenCount(s) ==
    LET t == LStrip(s)
    IN  IF t = <<>> THEN 0 ELSE 1 + TokenCount(DropWord(t))

\* extract_person_name; None is the missing value of the column
ExtractPersonName(licensee) ==
    IF licensee = NaN THEN NaN
    ELSE LET rest == RemoveSuffixes(StrUpper(licensee), BusinessSuffixes)
         IN  IF Contains(rest, <<",">>) \/ TokenCount(rest) <= 3
             THEN StrStrip(rest)
             ELSE NaN

\* df['possible_person']
WithPossiblePerson(frame) ==
    Frame([i \in 1..Len(frame) |->
             WithCols(frame[i], [possible_person |-> ExtractPersonName(frame[i].licensee)])])

\* df['licensee_clean'] and df['generic_name_flag']
WithGenericNameFlag(frame) ==
    Frame([i \in 1..Len(frame) |->
             LET clean == NormalizeLicensee(frame[i].licensee)
             IN  WithCols(frame[i], [licensee_clean |-> clean,
                                     generic_name_flag |-> GenericName(clean)])])

\* df['license_date'] and df['license_year']
WithLicenseDate(frame) ==
    Frame([i \in 1..Len(frame) |->
             LET d == ToDatetime(frame[i].license_first_date)
             IN  WithCols(frame[i], [license_date |-> d, license_year |-> DtYear(d)])])

\* main: df = load_data(); if df.empty: return
LoadData ==
    /\ pc \in {<<"ca_done">>, <<"ca_raised">>}
    /\ ddf' = LoadedFrame
    /\ pc' = IF LoadedFrame = <<>> THEN <<"deep_returned">> ELSE <<"phones">>
    /\ UNCHANGED <<previous, fetchVars, suspicious_addresses, capacity_threshold, replaceRule, multi_lic_facilities, portal, tieRule, files, all_facilities, combined, low_capacity,
                   suspicious, licensed_low_cap, df, short_lived, high_risk, cacfp,
                   rdf, investigation_report, error>>

ReplaceRules == {"downcast", "keep"}

\* .replace('nan', np.nan) on a column that becomes all NaN: the installed
\* pandas either downcasts it to float64, and .str.len() then raises
\* AttributeError, or keeps it as text; the same at every call
ReplaceChoices(fixed) == IF fixed = "unset" THEN ReplaceRules ELSE {fixed}

\* analyze_duplicate_phones
AnalyzeDuplicatePhones ==
    /\ pc = <<"phones">>
    /\ IF \A i \in 1..Len(ddf) : WithPhoneClean(ddf)[i].phone_clean = NaN
       THEN \E rule \in ReplaceChoices(replaceRule) :
               /\ replaceRule' = rule
               /\ IF rule = "downcast"
                  THEN /\ pc' = <<"deep_raised">>
                       /\ error' = [error EXCEPT !.deep = "AttributeError"]
                       /\ UNCHANGED ddf
                  ELSE /\ ddf' = WithSharedPhoneFlag(WithPhoneClean(ddf))
                       /\ pc' = <<"licensees">>
                       /\ UNCHANGED error
       ELSE /\ ddf' = WithSharedPhoneFlag(WithPhoneClean(ddf))
            /\ pc' = <<"licensees">>
            /\ UNCHANGED <<error, replaceRule>>
    /\ UNCHANGED <<previous, fetchVars, suspicious_addresses, capacity_threshold, multi_lic_facilities, portal, tieRule, files, all_facilities,
                   combined, low_capacity, suspicious, licensed_low_cap, df, short_lived,
                   high_risk, cacfp, rdf, investigation_report>>

\* analyze_licensee_patterns
AnalyzeLicenseePatterns ==
    /\ pc = <<"licensees">>
    /\ IF StrAccessorRaises(ddf, "licensee")
       THEN /\ pc' = <<"deep_raised">>
            /\ error' = [error EXCEPT !.deep = "AttributeError"]
            /\ UNCHANGED ddf
       ELSE /\ ddf' = WithGenericNameFlag(WithPossiblePerson(ddf))
            /\ pc' = <<"geography">>
            /\ UNCHANGED error
    /\ UNCHANGED <<previous, fetchVars, suspicious_addresses, capacity_threshold, replaceRule, multi_lic_facilities, portal, tieRule, files, all_facilities, combined, low_capacity,
                   suspicious, licensed_low_cap, df, short_lived, high_risk, cacfp,
                   rdf, investigation_report>>

\* analyze_geographic_clustering: the ZIP table is printed and saved; the frame
\* gains license_date and license_year
AnalyzeGeographicClustering ==
    /\ pc = <<"geography">>
    /\ ddf' = WithLicenseDate(ddf)
    /\ pc' = <<"cacfp">>
    /\ UNCHANGED <<previous, fetchVars, suspicious_addresses, capacity_threshold, replaceRule, multi_lic_facilities, portal, tieRule, files, all_facilities, combined, low_capacity,
                   suspicious, licensed_low_cap, df, short_lived, high_risk, cacfp,
                   rdf, investigation_report, error>>

\* download_cacfp_data: the workbook, or None when the request or the parse
\* fails
DownloadCacfpData ==
    /\ pc = <<"cacfp">>
    /\ \E got \in {"workbook", "None"} : cacfp' = got
    /\ pc' = <<"report">>
    /\ UNCHANGED <<previous, fetchVars, suspicious_addresses, capacity_threshold, replaceRule, multi_lic_facilities, portal, tieRule, files, all_facilities, combined, low_capacity,
                   suspicious, licensed_low_cap, df, short_lived, high_risk, ddf,
                   rdf, investigation_report, error>>

\* license_year.isin([2020, 2021, 2022])
ReportCovidMask(r) == ~IsNull(r.license_year) /\ Val(r.license_year) \in {2020, 2021, 2022}

\* facility_status.str.upper().isin(['CLOSED', 'INACTIVE'])
ClosedOrInactiveMask(r) == StrUpper(r.facility_status) \in {TextCLOSED, TextINACTIVE}

\* (months_operated > 0) & (months_operated < 24)
ReportShortMask(r) == NumGT(r.months_operated, 0) /\ NumLT(r.months_operated, 240)

\* df.loc[mask, 'risk_score'] += weight
AddRisk(frame, hits, weight) ==
    Frame([i \in 1..Len(frame) |->
             IF i \in hits
             THEN WithCols(frame[i], [risk_score |-> frame[i].risk_score + weight])
             ELSE frame[i]])

\* lines 285-309: the composite risk score of every row
RiskScored(frame) ==
    LET dated == Frame([i \in 1..Len(frame) |->
                          LET d == ToDatetime(frame[i].license_first_date)
                              c == ToDatetime(frame[i].closed_date)
                          IN  WithCols(frame[i],
                                       [risk_score |-> 0,
                                        license_date |-> d,
                                        license_year |-> DtYear(d),
                                        closed_date_parsed |-> c,
                                        months_operated |-> MonthsBetween(d, c)])])
        rows == 1..Len(frame)
        s1 == AddRisk(dated, {i \in rows : ReportCovidMask(dated[i])}, 2)
        s2 == AddRisk(s1, {i \in rows : ClosedOrInactiveMask(s1[i])}, 2)
        s3 == AddRisk(s2, {i \in rows : ReportShortMask(s2[i])}, 3)
        s4 == AddRisk(s3, {i \in rows : "flag_shared_phone" \in DOMAIN s3[i]
                                        /\ s3[i].flag_shared_phone}, 2)
    IN  AddRisk(s4, {i \in rows : "generic_name_flag" \in DOMAIN s4[i]
                                  /\ s4[i].generic_name_flag}, 1)

TieRules == {"input order", "reverse order"}

\* the position sort_values puts first: a highest risk_score; among equal
\* scores the default quicksort keeps no promised order, the installed build
\* fixes one
FirstOf(frame, rule) ==
    CHOOSE i \in 1..Len(frame) :
        \A j \in 1..Len(frame) :
            \/ frame[i].risk_score > frame[j].risk_score
            \/ /\ frame[i].risk_score = frame[j].risk_score
               /\ IF rule = "input order" THEN i <= j ELSE i >= j

\* as if every call of sort_values could order equal scores its own way
TieChoicesPerCall(fixed) == TieRules

\* the tie orders a call of sort_values can produce: the installed build's,
\* the same at every call
TieChoices(fixed) == IF fixed = "unset" THEN TieRules ELSE {fixed}

RECURSIVE SortByRisk(_, _)
\* sort_values('risk_score', ascending=False)
SortByRisk(frame, rule) ==
    IF frame = <<>> THEN <<>>
    ELSE LET i == FirstOf(frame, rule)
         IN  <<frame[i]>>
             \o SortByRisk(SubSeq(frame, 1, i - 1) \o SubSeq(frame, i + 1, Len(frame)),
                           rule)

\* the priority tier cut at the high-risk cut-off of detect_fraud_indicators
PriorityOfFromThree(frame) == SelectSeq(frame, LAMBDA r : r.risk_score >= 3)

\* df[df['risk_score'] >= 5]
PriorityOf(frame) == SelectSeq(frame, LAMBDA r : r.risk_score >= 5)

\* generate_investigation_report
GenerateInvestigationReport ==
    /\ pc = <<"report">>
    /\ IF StrAccessorRaises(ddf, "facility_status")
       THEN /\ pc' = <<"deep_raised">>
            /\ error' = [error EXCEPT !.deep = "AttributeError"]
            /\ UNCHANGED <<rdf, investigation_report, tieRule>>
       ELSE /\ rdf' = RiskScored(ddf)
            /\ \E rule \in TieChoices(tieRule) :
                 /\ tieRule' = rule
                 /\ investigation_report' = SortByRisk(PriorityOf(RiskScored(ddf)), rule)
            /\ pc' = <<"deep_done">>
            /\ UNCHANGED error
    /\ UNCHANGED <<previous, fetchVars, suspicious_addresses, capacity_threshold, replaceRule, multi_lic_facilities, portal, files, all_facilities, combined, low_capacity,
                   suspicious, licensed_low_cap, df, short_lived, high_risk, ddf,
                   cacfp>>

-----------------------------------------------------------------------------
(* The two programs, run one after the other on one registry snapshot.     *)

Start ==
    /\ pc = <<"download", 1>>
    /\ all_facilities = <<>>
    /\ combined = <<>>
    /\ low_capacity = <<>>
    /\ suspicious = <<>>
    /\ licensed_low_cap = <<>>
    /\ df = <<>>
    /\ multi_lic_facilities = <<>>
    /\ short_lived = <<>>
    /\ high_risk = <<>>
    /\ ddf = <<>>
    /\ cacfp = "not requested"
    /\ rdf = <<>>
    /\ investigation_report = <<>>
    /\ error = [ca |-> "", deep |-> ""]

\* check_facility_reports entered: reports_found = [], the loop at its first
\* index
FetchStart ==
    /\ inx = 0
    /\ requested = <<>>
    /\ reports_found = <<>>
    /\ returned = FALSE

InitFrom(catalog, n) ==
    /\ \E snapshot \in SeqsUpTo(catalog, n) :
         portal = [t \in {DATA_URLS[i] : i \in 1..Len(DATA_URLS)} |-> RowsOf(snapshot, t)]
    /\ tieRule = "unset"
    /\ replaceRule = "unset"
    /\ files = {}
    /\ previous = <<>>
    /\ Start
    /\ FetchStart
    /\ suspicious_addresses = {}

InitWith(n) == InitFrom(Catalog, n)

Init == InitWith(MaxRecords) /\ capacity_threshold = [number |-> CapacityThreshold]

Next ==
    \/ \E i \in 1..Len(DATA_URLS) : DownloadFacilityData(i)
    \/ AnalyzeLowCapacityFacilities
    \/ MainUnpack
    \/ DetectNormalize
    \/ DetectDuplicateAddresses
    \/ DetectMultiFacilityLicensees
    \/ DetectCovidEraLicenses
    \/ DetectShortLived
    \/ DetectHighRisk
    \/ LoadData
    \/ AnalyzeDuplicatePhones
    \/ AnalyzeLicenseePatterns
    \/ AnalyzeGeographicClustering
    \/ DownloadCacfpData
    \/ GenerateInvestigationReport

Spec == Init /\ [][Next]_vars

-----------------------------------------------------------------------------
(* The two programs run a second time on the same registry: the raw files  *)
(* and the installed sort stay, everything the programs compute starts     *)
(* afresh.                                                                 *)

DeepEnded == pc \in {<<"deep_done">>, <<"deep_returned">>, <<"deep_raised">>}

RunAgain ==
    /\ DeepEnded
    /\ previous = <<>>
    /\ previous' = <<[pc |-> pc, error |-> error, combined |-> combined,
                      low_capacity |-> low_capacity, suspicious |-> suspicious,
                      licensed_low_cap |-> licensed_low_cap, df |-> df,
                      short_lived |-> short_lived, high_risk |-> high_risk,
                      ddf |-> ddf, rdf |-> rdf,
                      investigation_report |-> investigation_report]>>
    /\ pc' = <<"download", 1>>
    /\ all_facilities' = <<>>
    /\ combined' = <<>>
    /\ low_capacity' = <<>>
    /\ suspicious' = <<>>
    /\ licensed_low_cap' = <<>>
    /\ df' = <<>>
    /\ multi_lic_facilities' = <<>>
    /\ short_lived' = <<>>
    /\ high_risk' = <<>>
    /\ ddf' = <<>>
    /\ cacfp' = "not requested"
    /\ rdf' = <<>>
    /\ investigation_report' = <<>>
    /\ error' = [ca |-> "", deep |-> ""]
    /\ UNCHANGED <<portal, capacity_threshold, tieRule, replaceRule, files, fetchVars, suspicious_addresses>>

InitTwice == InitWith(MaxRerunRecords) /\ capacity_threshold = [number |-> CapacityThreshold]

NextTwice == Next \/ RunAgain

SpecTwice == InitTwice /\ [][NextTwice]_vars

-----------------------------------------------------------------------------
(* The four indicator blocks of detect_fraud_indicators evaluated in any   *)
(* order, each once, on the normalised copy.                               *)

Indicators == 1..4

\* the blocks FLAG 1..4 are taken out of their textual order
EvaluateInAnyOrder ==
    /\ pc = <<"flag1">>
    /\ pc' = <<"indicators", "pending", {}>>
    /\ UNCHANGED <<previous, fetchVars, suspicious_addresses, capacity_threshold, replaceRule, multi_lic_facilities, portal,
                   tieRule, files, all_facilities, combined, low_capacity, suspicious,
                   licensed_low_cap, df, high_risk, short_lived, ddf, cacfp, rdf,
                   investigation_report, error>>

\* block FLAG k runs after the blocks in done: FLAG 4 reads the license_year
\* column and the parsed license_first_date that FLAG 3 writes (lines 282-283,
\* 314, 323), and df['license_year'] raises KeyError before FLAG 3 has run
EvaluateIndicator(k) ==
    /\ Len(pc) = 3 /\ pc[1] = "indicators"
    /\ k \in Indicators \ pc[3]
    /\ LET raises ==
               IF k = 2 /\ StrAccessorRaises(df, "licensee") THEN "AttributeError"
               ELSE IF k = 3 /\ StrAccessorRaises(df, "facility_status") THEN "AttributeError"
               ELSE IF k = 4 /\ 3 \notin pc[3] THEN "KeyError"
               ELSE ""
       IN  IF raises # ""
           THEN /\ pc' = <<"ca_raised">>
                /\ error' = [error EXCEPT !.ca = raises]
                /\ UNCHANGED <<df, multi_lic_facilities, short_lived>>
           ELSE /\ df' = CASE k = 1 -> FlagDuplicateAddresses(df)
                           [] k = 2 -> FlagHighVolumeLicensees(WithLicenseeKey(df))
                           [] k = 3 -> FlagCovidEra(WithLicenseYear(df))
                           [] k = 4 -> FlagShortLived(WithClosedYear(df))
                /\ multi_lic_facilities' =
                      IF k = 2 THEN MultiLicFacilities(df') ELSE multi_lic_facilities
                /\ short_lived' =
                      IF k = 4 THEN ShortLived(WithClosedYear(df)) ELSE short_lived
                /\ pc' = IF pc[3] \cup {k} = Indicators
                         THEN <<"high_risk">>
                         ELSE <<"indicators", "pending", pc[3] \cup {k}>>
                /\ UNCHANGED error
    /\ UNCHANGED <<previous, fetchVars, suspicious_addresses, capacity_threshold, replaceRule, portal, tieRule, files,
                   all_facilities, combined, low_capacity, suspicious, licensed_low_cap,
                   high_risk, ddf, cacfp, rdf, investigation_report>>

InitAnyOrder ==
    InitWith(MaxAnyOrderRecords) /\ capacity_threshold = [number |-> CapacityThreshold]

NextAnyOrder ==
    \/ Next
    \/ EvaluateInAnyOrder
    \/ \E k \in Indicators : EvaluateIndicator(k)

SpecAnyOrder == InitAnyOrder /\ [][NextAnyOrder]_vars

-----------------------------------------------------------------------------
(* fetch_inspection_reports.py: check_facility_reports for one facility.   *)

\* for inx in range(5)
ReportIndices == 5

\* what requests.get and the parsing of one request can give: an exception
\* (timeout, connection error, a parser error), or a response with a status,
\* a body of more than 500 characters or not, a text of more than 100
\* characters that names a facility or not, and a text that names a
\* violation, deficiency or citation or not
Responses ==
    [raises : BOOLEAN, status_code : {200, 404}, long_body : BOOLEAN,
     facility_text : BOOLEAN, has_any_violation : BOOLEAN]

\* lines 114 and 119
IsReport(response) ==
    /\ response.status_code = 200 /\ response.long_body
    /\ response.facility_text

\* the loop body with the try around the whole loop: an exception ends the
\* probing
ProbeReportUntilError(response) ==
    /\ ~returned /\ inx < ReportIndices
    /\ requested' = Append(requested, inx)
    /\ reports_found' =
          IF ~response.raises /\ IsReport(response)
          THEN Append(reports_found,
                      [report_index |-> inx,
                       has_any_violation |-> response.has_any_violation])
          ELSE reports_found
    /\ inx' = IF response.raises THEN ReportIndices ELSE inx + 1
    /\ UNCHANGED <<returned, analysisVars>>

\* lines 110-146: one pass of the loop body; an exception is swallowed by the
\* except clause of this pass and the loop goes on
ProbeReport(response) ==
    /\ ~returned /\ inx < ReportIndices
    /\ requested' = Append(requested, inx)
    /\ reports_found' =
          IF ~response.raises /\ IsReport(response)
          THEN Append(reports_found,
                      [report_index |-> inx,
                       has_any_violation |-> response.has_any_violation])
          ELSE reports_found
    /\ inx' = inx + 1
    /\ UNCHANGED <<returned, analysisVars>>

\* line 148
ReturnReports ==
    /\ ~returned /\ inx = ReportIndices
    /\ returned' = TRUE
    /\ UNCHANGED <<inx, requested, reports_found, analysisVars>>

InitFetch == InitWith(0) /\ capacity_threshold = [number |-> CapacityThreshold]

NextFetch ==
    \/ \E response \in Responses : ProbeReport(response)
    \/ ReturnReports

\* every request ends within its timeout, so the loop is never held up
SpecFetch == InitFetch /\ [][NextFetch]_vars /\ WF_vars(NextFetch)

-----------------------------------------------------------------------------
(* create_address_network_map.py, run after ca_childcare_analysis.py on the *)
(* fraud_flag_duplicate_addresses.csv it wrote.                            *)

\* lines 242-245 of ca_childcare_analysis.py: the rows at duplicate addresses,
\* written to fraud_flag_duplicate_addresses.csv unless there are none
DupAddrFacilities(frame) ==
    SelectSeq(frame, LAMBDA r : CountOf(frame, "full_address", r.full_address) > 1)

\* a text cell written by to_csv and read back by read_csv: the empty text
\* comes back missing
CsvText(s) == IF s = <<>> THEN NaN ELSE s

\* df['address_key'] = df['address_normalized'].str.upper().str.strip()
WithAddressKey(frame) ==
    Frame([i \in 1..Len(frame) |->
             WithCols(frame[i],
                      [address_key |->
                          StrStrip(StrUpper(CsvText(frame[i].address_normalized)))])])

\* df.groupby('address_key').agg(...): one row per key, rows without a key
\* left out; the members are named by their row number in the scored frame
\* (the table is in key order; held as a set)
AddressGroups(frame) ==
    {LET members == SelectSeq(frame, LAMBDA r : r.address_key = key)
     IN  [address_key |-> key,
          facility_count |-> Len(members),
          facility_numbers |-> [k \in 1..Len(members) |-> members[k].idx] \o <<>>,
          licensees |-> [k \in 1..Len(members) |-> members[k].licensee] \o <<>>] :
     key \in {frame[i].address_key : i \in 1..Len(frame)} \ {NaN}}

\* has_different_licensees
HasDifferentLicensees(licensees) ==
    Cardinality({NormalizeLicensee(licensees[k]) :
                    k \in {n \in 1..Len(licensees) : licensees[n] # NaN}}) > 1

\* address_groups[facility_count >= 2] with the different_licensees column
SuspiciousAddresses(frame) ==
    {WithCols(g, [different_licensees |-> HasDifferentLicensees(g.licensees)]) :
     g \in {a \in AddressGroups(frame) : a.facility_count >= 2}}

\* the script, run once ca_childcare_analysis.py has ended: read_csv raises
\* FileNotFoundError when no file was written
CreateAddressNetworkMap ==
    /\ pc \in {<<"ca_done">>, <<"ca_raised">>}
    /\ IF DupAddrFacilities(df) = <<>>
       THEN /\ pc' = <<"map_raised">>
            /\ UNCHANGED suspicious_addresses
       ELSE /\ suspicious_addresses' =
                  SuspiciousAddresses(WithAddressKey(DupAddrFacilities(df)))
            /\ pc' = <<"map_done">>
    /\ UNCHANGED <<previous, fetchVars, capacity_threshold, replaceRule,
                   multi_lic_facilities, portal, tieRule, files, all_facilities,
                   combined, low_capacity, suspicious, licensed_low_cap, df, high_risk,
                   short_lived, ddf, cacfp, rdf, investigation_report, error>>

\* a home of another licensee at the street address of CenterKidz, in another
\* city
HomeElmSF == [HomeJane EXCEPT !.facility_address = CenterKidz.facility_address]

\* a centre at the address of CenterKidz whose licensee cell is empty
CenterKidzAnon == [CenterKidz EXCEPT !.licensee = NaN]

MapCatalog == {CenterKidz, CenterKidzTwin, HomeElmSF, CenterKidzAnon}

InitMap ==
    InitFrom(MapCatalog, MaxMapRecords)
    /\ capacity_threshold = [number |-> CapacityThreshold]

NextMap ==
    \/ Next
    \/ CreateAddressNetworkMap

SpecMap == InitMap /\ [][NextMap]_vars

-----------------------------------------------------------------------------
(* The programs run with the threshold __main__ was edited to pass: the    *)
(* shipped 14, zero, a negative number or a text.                          *)

Thresholds ==
    {[number |-> CapacityThreshold], [number |-> 0], [number |-> -5],
     [text |-> "fourteen"]}

InitThreshold == InitWith(MaxThresholdRecords) /\ capacity_threshold \in Thresholds

SpecThreshold == InitThreshold /\ [][Next]_vars

-----------------------------------------------------------------------------
(* What the claims speak of.                                               *)

DeepPcs ==
    {<<"phones">>, <<"licensees">>, <<"geography">>, <<"cacfp">>, <<"report">>,
     <<"deep_done">>, <<"deep_returned">>, <<"deep_raised">>}

\* detect_fraud_indicators has returned
DetectFinished == error.ca = "" /\ pc \in {<<"ca_done">>} \cup DeepPcs

\* generate_investigation_report has returned
ReportFinished == pc = <<"deep_done">>

B(b) == IF b THEN 1 ELSE 0

\* the keys of a registry row
AddressKey(r) == FullAddress(NormalizeAddress(r.facility_address), r.facility_city)

LicenseeKey(r) == NormalizeLicensee(r.licensee)

PhoneKey(frame, i) ==
    LET p == PhoneClean(PhoneText(frame[i].facility_telephone_number, ConcatDtype(frame, i)))
    IN  IF ValidPhone(p) THEN p ELSE NaN

StartOf(r) == ToDatetime(r.license_first_date)

ClosureOf(r) == ToDatetime(r.closed_date)

StatusOf(r) == StrUpper(r.facility_status)

\* the positions of a column of keys that hold the key k
Sharing(keys, k) ==
    IF k = NaN THEN {} ELSE {j \in 1..Len(keys) : keys[j] = k}

\* the rows of a frame at the address, with the phone or of the licensee of
\* its row i
SharingAddress(frame, i) ==
    Sharing([j \in 1..Len(frame) |-> AddressKey(frame[j])], AddressKey(frame[i]))

SharingPhone(frame, i) ==
    Sharing([j \in 1..Len(frame) |-> PhoneKey(frame, j)], PhoneKey(frame, i))

SharingLicensee(frame, i) ==
    Sharing([j \in 1..Len(frame) |-> LicenseeKey(frame[j])], LicenseeKey(frame[i]))

\* the labels of flags whose condition holds, in the order given
RECURSIVE Triggered(_, _)
Triggered(labels, holds) ==
    IF labels = <<>> THEN <<>>
    ELSE (IF Head(labels) \in holds THEN <<Head(labels)>> ELSE <<>>)
         \o Triggered(Tail(labels), holds)

\* the indicators of the spec's table that hold for row i of a frame of raw
\* registry rows
SpecHolds(frame, i) ==
    LET r == frame[i]
        start == StartOf(r)
        closure == ClosureOf(r)
        months == IF IsNull(start) \/ IsNull(closure) THEN Null
                  ELSE IF DayNumber(closure) < DayNumber(start) THEN Null
                  ELSE MonthsBetween(start, closure)
        phoneGroup == SharingPhone(frame, i)
    IN  {l \in {"DUPLICATE_ADDRESS", "HIGH_VOLUME_LICENSEE", "COVID_ERA_LICENSE",
                "SHORT_LIVED", "SHARED_PHONE", "GENERIC_NAME", "CLOSED_OR_INACTIVE"} :
           \/ l = "DUPLICATE_ADDRESS"
              /\ Cardinality(SharingAddress(frame, i)) >= 2
           \/ l = "HIGH_VOLUME_LICENSEE"
              /\ Cardinality(SharingLicensee(frame, i)) >= 5
           \/ l = "COVID_ERA_LICENSE"
              /\ ~IsNull(start) /\ start[1] \in {2020, 2021, 2022}
           \/ l = "SHORT_LIVED"
              /\ StatusOf(r) = TextCLOSED
              /\ ~IsNull(start) /\ start[1] >= 2020
              /\ NumLT(months, 240)
           \/ l = "SHARED_PHONE"
              /\ \/ Cardinality(phoneGroup) >= 3
                 \/ Cardinality({AddressKey(frame[j]) : j \in phoneGroup}) >= 2
           \/ l = "GENERIC_NAME"
              /\ GenericName(LicenseeKey(r))
           \/ l = "CLOSED_OR_INACTIVE"
              /\ StatusOf(r) \in {TextCLOSED, TextINACTIVE}}

\* the sum of the spec's weights over a set of indicators
SpecWeight(holds) ==
    2 * B("DUPLICATE_ADDRESS" \in holds) + B("HIGH_VOLUME_LICENSEE" \in holds)
    + B("COVID_ERA_LICENSE" \in holds) + 2 * B("SHORT_LIVED" \in holds)
    + 2 * B("SHARED_PHONE" \in holds) + B("GENERIC_NAME" \in holds)
    + 2 * B("CLOSED_OR_INACTIVE" \in holds)

\* the indicators detect_fraud_indicators evaluates that hold for row i:
\* SHORT_LIVED on the signed difference of the two dates
DetectHolds(frame, i) ==
    LET r == frame[i]
        start == StartOf(r)
    IN  {l \in {"DUPLICATE_ADDRESS", "HIGH_VOLUME_LICENSEE", "COVID_ERA_LICENSE",
                "SHORT_LIVED"} :
           \/ l = "DUPLICATE_ADDRESS"
              /\ Cardinality(SharingAddress(frame, i)) >= 2
           \/ l = "HIGH_VOLUME_LICENSEE"
              /\ Cardinality(SharingLicensee(frame, i)) >= 5
           \/ l = "COVID_ERA_LICENSE"
              /\ ~IsNull(start) /\ start[1] \in {2020, 2021, 2022}
           \/ l = "SHORT_LIVED"
              /\ StatusOf(r) = TextCLOSED
              /\ ~IsNull(start) /\ start[1] >= 2020
              /\ ~IsNull(ClosureOf(r))
              /\ DayNumber(ClosureOf(r)) - DayNumber(start) <= 718}

\* the indicators generate_investigation_report evaluates that hold for row i:
\* SHORT_LIVED on 0 < months < 24 alone, SHARED_PHONE on 3 rows with the phone
ReportHolds(frame, i) ==
    LET r == frame[i]
        start == StartOf(r)
        days == DayNumber(ClosureOf(r)) - DayNumber(start)
    IN  {l \in {"COVID_ERA_LICENSE", "SHORT_LIVED", "SHARED_PHONE", "GENERIC_NAME",
                "CLOSED_OR_INACTIVE"} :
           \/ l = "COVID_ERA_LICENSE"
              /\ ~IsNull(start) /\ start[1] \in {2020, 2021, 2022}
           \/ l = "SHORT_LIVED"
              /\ ~IsNull(start) /\ ~IsNull(ClosureOf(r))
              /\ days >= 2 /\ days <= 718
           \/ l = "SHARED_PHONE"
              /\ Cardinality(SharingPhone(frame, i)) >= 3
           \/ l = "GENERIC_NAME"
              /\ GenericName(LicenseeKey(r))
           \/ l = "CLOSED_OR_INACTIVE"
              /\ StatusOf(r) \in {TextCLOSED, TextINACTIVE}}

\* C1 as the spec states it: every score is the sum of the spec table's
\* weights over exactly the indicators of the table that hold for the record.
C1_ScoreIsSpecTableSum ==
    /\ DetectFinished =>
         \A i \in 1..Len(df) : df[i].fraud_score = SpecWeight(SpecHolds(combined, i))
    /\ ReportFinished =>
         \A i \in 1..Len(rdf) : rdf[i].risk_score = SpecWeight(SpecHolds(ddf, i))

\* C1, amended: fraud_score is the sum of DUPLICATE_ADDRESS 2,
\* HIGH_VOLUME_LICENSEE 1, COVID_ERA_LICENSE 1, SHORT_LIVED 2 over exactly the
\* indicators detect_fraud_indicators evaluates that hold for the record, each
\* flag listed once; risk_score is the sum of COVID_ERA_LICENSE 2,
\* CLOSED_OR_INACTIVE 2, SHORT_LIVED 3, SHARED_PHONE 2, GENERIC_NAME 1 over
\* exactly the indicators generate_investigation_report evaluates that hold.
C1_ScoreIsSumOfEvaluatedWeights ==
    /\ DetectFinished =>
         \A i \in 1..Len(df) :
            LET holds == DetectHolds(combined, i)
            IN  /\ df[i].fraud_score =
                     2 * B("DUPLICATE_ADDRESS" \in holds)
                     + B("HIGH_VOLUME_LICENSEE" \in holds)
                     + B("COVID_ERA_LICENSE" \in holds)
                     + 2 * B("SHORT_LIVED" \in holds)
                /\ df[i].fraud_flags =
                     Triggered(<<"DUPLICATE_ADDRESS", "HIGH_VOLUME_LICENSEE",
                                 "COVID_ERA_LICENSE", "SHORT_LIVED">>, holds)
    /\ ReportFinished =>
         \A i \in 1..Len(rdf) :
            LET holds == ReportHolds(ddf, i)
            IN  rdf[i].risk_score =
                  2 * B("COVID_ERA_LICENSE" \in holds)
                  + 2 * B("CLOSED_OR_INACTIVE" \in holds)
                  + 3 * B("SHORT_LIVED" \in holds)
                  + 2 * B("SHARED_PHONE" \in holds)
                  + B("GENERIC_NAME" \in holds)

\* both scorers have run and each has scored a record on three indicators
C1_Witness ==
    /\ DetectFinished /\ ReportFinished
    /\ \E i \in 1..Len(df) : Len(df[i].fraud_flags) >= 3
    /\ \E i \in 1..Len(rdf) : Cardinality(ReportHolds(ddf, i)) >= 4

\* C2: months_operated is null unless both dates parse and closure >= start,
\* and a months_operated that is present is never negative, in the report's
\* scored frame and in detect's covid_opened_closed rows kept as short_lived.
C2_MonthsOperatedNullOrNonNegative ==
    /\ ReportFinished =>
         \A i \in 1..Len(rdf) :
            LET r == rdf[i]
            IN  /\ ~IsNull(r.months_operated) =>
                     /\ ~IsNull(r.license_date) /\ ~IsNull(r.closed_date_parsed)
                     /\ DayNumber(r.closed_date_parsed) >= DayNumber(r.license_date)
                /\ ~IsNull(r.months_operated) => Val(r.months_operated) >= 0
    /\ DetectFinished =>
         \A k \in 1..Len(short_lived) :
            LET r == short_lived[k]
            IN  /\ ~IsNull(r.months_operated) =>
                     /\ ~IsNull(r.license_first_date) /\ ~IsNull(r.closed_date)
                     /\ DayNumber(r.closed_date) >= DayNumber(r.license_first_date)
                /\ ~IsNull(r.months_operated) => Val(r.months_operated) >= 0

\* analyze_duplicate_phones has returned its flagged frame
PhonesAnalyzed ==
    /\ pc \in {<<"licensees">>, <<"geography">>, <<"cacfp">>, <<"report">>,
               <<"deep_done">>, <<"deep_raised">>}
    /\ \A i \in 1..Len(ddf) : "flag_shared_phone" \in DOMAIN ddf[i]

\* the records of ddf that share the valid phone key of record i
PhoneGroup(i) == SharingPhone(ddf, i)

Unrelated(frame, c, a) ==
    /\ AddressKey(frame[c]) = NaN \/ AddressKey(frame[c]) # AddressKey(frame[a])
    /\ PhoneKey(frame, c) = NaN \/ PhoneKey(frame, c) # PhoneKey(frame, a)
    /\ LicenseeKey(frame[c]) = NaN \/ LicenseeKey(frame[c]) # LicenseeKey(frame[a])

\* the frame without its row c; the rows left keep their index labels
Drop(frame, c) == SubSeq(frame, 1, c - 1) \o SubSeq(frame, c + 1, Len(frame))

\* the flags and the score of the row labelled idx
Verdict(frame, idx) ==
    LET k == CHOOSE k \in 1..Len(frame) : frame[k].idx = idx
    IN  <<frame[k].fraud_flags, frame[k].fraud_score>>

\* two records at one address and a third record related to neither
ColocatedWithThird(a, b, c) ==
    /\ a # b /\ c # a /\ c # b
    /\ AddressKey(combined[a]) # NaN
    /\ AddressKey(combined[a]) = AddressKey(combined[b])
    /\ Unrelated(combined, c, a) /\ Unrelated(combined, c, b)

\* C4: when detect_fraud_indicators returns, any two records with equal
\* non-empty address keys both carry DUPLICATE_ADDRESS, and scoring the input
\* without a third record that shares no address, phone or licensee key with
\* either leaves the flags and the score of both unchanged.
C4_AddressClusteringSymmetricAndLocal ==
    pc = <<"ca_done">> =>
      /\ \A a, b \in 1..Len(combined) :
            (a # b /\ AddressKey(combined[a]) # NaN
                   /\ AddressKey(combined[a]) = AddressKey(combined[b]))
            => /\ \E k \in 1..Len(df[a].fraud_flags) :
                     df[a].fraud_flags[k] = "DUPLICATE_ADDRESS"
               /\ \E k \in 1..Len(df[b].fraud_flags) :
                     df[b].fraud_flags[k] = "DUPLICATE_ADDRESS"
      /\ \A c \in 1..Len(combined) :
            (\E a, b \in 1..Len(combined) : ColocatedWithThird(a, b, c))
            => LET without == DetectFraudIndicators(Drop(combined, c))
               IN  \A a, b \in 1..Len(combined) :
                      ColocatedWithThird(a, b, c)
                      => /\ Verdict(without, a) = Verdict(df, a)
                         /\ Verdict(without, b) = Verdict(df, b)

\* detect_fraud_indicators has flagged two co-located records of an input
\* that also holds an unrelated, itself flagged, third record
C4_Witness ==
    /\ pc = <<"ca_done">>
    /\ \E a, b, c \in 1..Len(combined) :
          /\ ColocatedWithThird(a, b, c)
          /\ df[a].fraud_score >= 3
          /\ df[c].fraud_score >= 1

\* row i of a frame of registry rows is the record of the closed-after-seven-
\* months scenario: licensed 2020-06-01, closed 2021-01-01, status CLOSED, an
\* address of its own, a licensee that is not generic and is shared by fewer
\* than 5 records, a phone shared with two other records at another address
ShortLivedScenario(frame, i) ==
    LET r == frame[i]
    IN  /\ StartOf(r) = <<2020, 6, 1>>
        /\ ClosureOf(r) = <<2021, 1, 1>>
        /\ StatusOf(r) = TextCLOSED
        /\ SharingAddress(frame, i) = {i}
        /\ ~GenericName(LicenseeKey(r))
        /\ Cardinality(SharingLicensee(frame, i)) < 5
        /\ \E j, k \in SharingPhone(frame, i) \ {i} : j # k

\* the labels listed for the rows of a tier
Members(tier) == {tier[k].idx : k \in 1..Len(tier)}

\* C5 as the spec states it: the scenario record ends with the flags
\* COVID_ERA_LICENSE, SHORT_LIVED, SHARED_PHONE, CLOSED_OR_INACTIVE, score 7,
\* and is in the high-risk tier.
C5_ScenarioScoresSeven ==
    /\ DetectFinished =>
         \A i \in 1..Len(combined) :
            ShortLivedScenario(combined, i)
            => /\ df[i].fraud_flags = <<"COVID_ERA_LICENSE", "SHORT_LIVED",
                                        "SHARED_PHONE", "CLOSED_OR_INACTIVE">>
               /\ df[i].fraud_score = 7
               /\ df[i].idx \in Members(high_risk)
    /\ ReportFinished =>
         \A i \in 1..Len(ddf) :
            ShortLivedScenario(ddf, i)
            => /\ rdf[i].risk_score = 7
               /\ rdf[i].idx \in Members(investigation_report)

\* C5, amended: the scenario record ends detect_fraud_indicators with the
\* flags COVID_ERA_LICENSE, SHORT_LIVED in that order, fraud_score 3, in its
\* high-risk set; it ends generate_investigation_report with risk_score
\* 2 + 2 + 3 + 2 = 9, in the priority tier.
C5_ScenarioScoresThreeAndNine ==
    /\ DetectFinished =>
         \A i \in 1..Len(combined) :
            ShortLivedScenario(combined, i)
            => /\ df[i].fraud_flags = <<"COVID_ERA_LICENSE", "SHORT_LIVED">>
               /\ df[i].fraud_score = 3
               /\ df[i].idx \in Members(high_risk)
    /\ ReportFinished =>
         \A i \in 1..Len(ddf) :
            ShortLivedScenario(ddf, i)
            => /\ rdf[i].risk_score = 9
               /\ rdf[i].idx \in Members(investigation_report)

\* both programs have finished on an input that holds the scenario record
C5_Witness ==
    /\ DetectFinished /\ ReportFinished
    /\ \E i \in 1..Len(combined) : ShortLivedScenario(combined, i)
    /\ \E i \in 1..Len(ddf) : ShortLivedScenario(ddf, i) /\ rdf[i].risk_score = 9

\* row i of a frame of registry rows is the record of the licensed-home
\* scenario: licensed 2021-03-01, status LICENSED, no closure date, an address,
\* a phone and a licensee no other record has; capacity is the row's coerced
\* capacity
LicensedScenario(frame, i, capacity) ==
    LET r == frame[i]
    IN  /\ StartOf(r) = <<2021, 3, 1>>
        /\ StatusOf(r) = TextLICENSED
        /\ capacity = 8
        /\ r.closed_date = NaN
        /\ SharingAddress(frame, i) = {i}
        /\ SharingPhone(frame, i) = {i}
        /\ SharingLicensee(frame, i) = {i}

\* what both statements of C6 say of detect_fraud_indicators and of the tiers
LicensedScenarioInDetect ==
    DetectFinished =>
      \A i \in 1..Len(combined) :
         LicensedScenario(combined, i, combined[i].facility_capacity)
         => /\ df[i].fraud_flags = <<"COVID_ERA_LICENSE">>
            /\ df[i].fraud_score = 1
            /\ df[i].idx \in Members(licensed_low_cap)
            /\ df[i].idx \notin Members(suspicious)
            /\ df[i].idx \notin Members(high_risk)

\* C6 as the spec states it: the scenario record ends the run with the flag
\* COVID_ERA_LICENSE alone and score 1, in the licensed low-capacity tier and
\* not in the high-risk tier.
C6_ScenarioScoresOne ==
    /\ LicensedScenarioInDetect
    /\ ReportFinished =>
         \A i \in 1..Len(ddf) :
            LicensedScenario(ddf, i, FillNaZero(ToNumeric(ddf[i].facility_capacity)))
            => /\ rdf[i].risk_score = 1
               /\ rdf[i].idx \notin Members(investigation_report)

\* C6, amended: the scenario record ends detect_fraud_indicators with the flag
\* COVID_ERA_LICENSE alone and fraud_score 1, in the licensed low-capacity
\* tier and not in the high-risk set; generate_investigation_report gives it
\* risk_score 2, or 3 when its licensee name is generic, and leaves it out of
\* the priority tier.
C6_ScenarioScoresOneAndTwo ==
    /\ LicensedScenarioInDetect
    /\ ReportFinished =>
         \A i \in 1..Len(ddf) :
            LicensedScenario(ddf, i, FillNaZero(ToNumeric(ddf[i].facility_capacity)))
            => /\ rdf[i].risk_score = 2 + B(GenericName(LicenseeKey(ddf[i])))
               /\ rdf[i].idx \notin Members(investigation_report)

\* both programs have finished on an input that holds the scenario record
\* beside records of both other tiers
C6_Witness ==
    /\ DetectFinished /\ ReportFinished
    /\ \E i \in 1..Len(combined) :
          /\ LicensedScenario(combined, i, combined[i].facility_capacity)
          /\ LicensedScenario(ddf, i, FillNaZero(ToNumeric(ddf[i].facility_capacity)))
          /\ rdf[i].risk_score = 2
    /\ high_risk # <<>> /\ investigation_report # <<>>

\* ca_childcare_analysis.py has ended, by returning or by raising
CaEnded == pc \in {<<"ca_done">>, <<"ca_raised">>} \cup DeepPcs

\* C7: when no records are loaded (every download fails, or the snapshot files
\* are missing), the run ends without an exception and every tier is empty.
C7_EmptyInputEndsQuietly ==
    /\ (CaEnded /\ all_facilities = <<>>) =>
         /\ error.ca = ""
         /\ high_risk = <<>> /\ licensed_low_cap = <<>> /\ suspicious = <<>>
    /\ (DeepEnded /\ ddf = <<>>) =>
         /\ error.deep = ""
         /\ investigation_report = <<>>

Labels(frame) == [k \in 1..Len(frame) |-> frame[k].idx]

\* the scores of a tier never rise from one row to the next
NonIncreasing(scores) ==
    \A k \in 1..(Len(scores) - 1) : scores[k] >= scores[k + 1]

\* rows of equal score are listed the most recently licensed first
TiesByDateDescending(scores, dates) ==
    \A j, k \in 1..Len(scores) :
       (j < k /\ scores[j] = scores[k] /\ ~IsNull(dates[j]) /\ ~IsNull(dates[k]))
       => DayNumber(dates[j]) >= DayNumber(dates[k])

\* C9 as the spec states it: the high-risk tier holds exactly the records of
\* score >= 3, in non-increasing score order, equal scores by license-start
\* date descending.
C9_HighRiskSortedWithDateTieBreak ==
    /\ DetectFinished =>
         /\ Members(high_risk) = {df[i].idx : i \in {i \in 1..Len(df) : df[i].fraud_score >= 3}}
         /\ NonIncreasing([k \in 1..Len(high_risk) |-> high_risk[k].fraud_score])
         /\ TiesByDateDescending([k \in 1..Len(high_risk) |-> high_risk[k].fraud_score],
                                 [k \in 1..Len(high_risk) |-> high_risk[k].license_first_date])
    /\ ReportFinished =>
         /\ Members(investigation_report) =
               {rdf[i].idx : i \in {i \in 1..Len(rdf) : rdf[i].risk_score >= 3}}
         /\ NonIncreasing([k \in 1..Len(investigation_report) |->
                             investigation_report[k].risk_score])
         /\ TiesByDateDescending(
               [k \in 1..Len(investigation_report) |-> investigation_report[k].risk_score],
               [k \in 1..Len(investigation_report) |-> investigation_report[k].license_date])

\* C9, amended: detect_fraud_indicators' high-risk set holds exactly the
\* records of fraud_score >= 3, each once, in input order; the investigation
\* report's priority tier holds exactly the records of risk_score >= 5, each
\* once, in non-increasing risk_score order.
C9_HighRiskByCutoffAndScoreOrder ==
    /\ DetectFinished =>
         /\ Labels(high_risk) = Labels(SelectSeq(df, LAMBDA r : r.fraud_score > 2))
         /\ \A k \in 1..Len(high_risk) :
               \E i \in 1..Len(df) : df[i] = high_risk[k]
    /\ ReportFinished =>
         /\ Members(investigation_report) =
               {rdf[i].idx : i \in {i \in 1..Len(rdf) : rdf[i].risk_score > 4}}
         /\ Len(investigation_report) = Cardinality(Members(investigation_report))
         /\ \A k \in 1..Len(investigation_report) :
               \E i \in 1..Len(rdf) : rdf[i] = investigation_report[k]
         /\ NonIncreasing([k \in 1..Len(investigation_report) |->
                             investigation_report[k].risk_score])

\* the high-risk set lists a score below a later one, and the priority tier
\* lists, among equal scores, an older license before a newer one
C9_Witness ==
    /\ DetectFinished /\ ReportFinished
    /\ \E j, k \in 1..Len(high_risk) :
          j < k /\ high_risk[j].fraud_score < high_risk[k].fraud_score
    /\ \E j, k \in 1..Len(investigation_report) :
          /\ j < k
          /\ investigation_report[j].risk_score = investigation_report[k].risk_score
          /\ ~IsNull(investigation_report[j].license_date)
          /\ ~IsNull(investigation_report[k].license_date)
          /\ DayNumber(investigation_report[j].license_date)
                < DayNumber(investigation_report[k].license_date)

\* analyze_low_capacity_facilities has built combined and the two tiers
TiersBuilt == combined # <<>>

\* the record's coerced capacity is above 0 and below the default threshold
InLowRange(r) == r.facility_capacity > 0 /\ r.facility_capacity < 14

\* C10: a record is in the licensed low-capacity tier iff its status is
\* LICENSED (in any letter case) and 0 < capacity < 14, and in the non-licensed
\* low-capacity tier iff 0 < capacity < 14 and its status is not LICENSED; so a
\* record in that range, one with a missing status included, is in exactly one
\* of the two tiers and a record outside it is in neither.
C10_LowCapacityTiersPartition ==
    TiersBuilt =>
      \A i \in 1..Len(combined) :
         LET r == combined[i]
         IN  /\ r.idx \in Members(licensed_low_cap)
                  <=> (InLowRange(r) /\ StatusOf(r) = TextLICENSED)
             /\ r.idx \in Members(suspicious)
                  <=> (InLowRange(r) /\ StatusOf(r) # TextLICENSED)
             /\ InLowRange(r)
                  => (r.idx \in Members(licensed_low_cap)) # (r.idx \in Members(suspicious))
             /\ ~InLowRange(r)
                  => r.idx \notin Members(licensed_low_cap) \cup Members(suspicious)

\* the tiers are built from a licensed record in range, a record in range with
\* no status, a record of capacity 14 and a record whose capacity does not parse
C10_Witness ==
    /\ TiersBuilt
    /\ \E i \in 1..Len(combined) :
          combined[i].idx \in Members(licensed_low_cap)
    /\ \E i \in 1..Len(combined) :
          /\ combined[i].facility_status = NaN
          /\ combined[i].idx \in Members(suspicious)
    /\ \E i \in 1..Len(combined) : combined[i].facility_capacity = 14
    /\ \E i \in 1..Len(combined) : combined[i].facility_capacity = 0

\* detect_fraud_indicators has just returned to __main__
DetectReturned == pc = <<"ca_done">>

\* the raw capacity cell of the i-th loaded record
RawCapacity(i) == Flatten(all_facilities)[i].facility_capacity

\* a capacity cell that is missing, not a whole number, zero or negative
NotPositiveCapacity(cell) ==
    \/ cell = NaN
    \/ ~AllDigits(cell)
    \/ DigitsValue(cell) = 0

\* C11: a record whose capacity is 0, negative or unparseable is in no
\* low-capacity tier, yet detect_fraud_indicators scores it like any other
\* record and lists it in the high-risk set exactly when its score reaches 3.
C11_CapacityIndependentOfScoring ==
    /\ TiersBuilt =>
         \A i \in 1..Len(combined) :
            NotPositiveCapacity(RawCapacity(i))
            => /\ combined[i].facility_capacity <= 0
               /\ combined[i].idx \notin Members(low_capacity)
               /\ combined[i].idx \notin Members(suspicious)
               /\ combined[i].idx \notin Members(licensed_low_cap)
    /\ DetectReturned =>
         /\ Len(df) = Len(combined)
         /\ \A i \in 1..Len(combined) :
               NotPositiveCapacity(RawCapacity(i))
               => LET holds == DetectHolds(combined, i)
                  IN  /\ df[i].idx = combined[i].idx
                      /\ df[i].fraud_score =
                           2 * B("DUPLICATE_ADDRESS" \in holds)
                           + B("HIGH_VOLUME_LICENSEE" \in holds)
                           + B("COVID_ERA_LICENSE" \in holds)
                           + 2 * B("SHORT_LIVED" \in holds)
                      /\ df[i].fraud_score >= 3 <=> df[i].idx \in Members(high_risk)

\* the high-risk set lists a record whose capacity does not parse and a record
\* of negative capacity
C11_Witness ==
    /\ DetectFinished
    /\ \E i \in 1..Len(combined) :
          /\ ~AllDigits(RawCapacity(i)) /\ combined[i].facility_capacity = 0
          /\ df[i].idx \in Members(high_risk)
    /\ \E i \in 1..Len(combined) :
          /\ combined[i].facility_capacity < 0
          /\ df[i].idx \in Members(high_risk)

\* the indicator labels in the order of the spec's table
TableOrder ==
    <<"DUPLICATE_ADDRESS", "HIGH_VOLUME_LICENSEE", "COVID_ERA_LICENSE", "SHORT_LIVED",
      "SHARED_PHONE", "GENERIC_NAME", "CLOSED_OR_INACTIVE">>

\* the place of a label in the table, 0 for a text that is no label of it
Rank(label) ==
    IF \E k \in 1..Len(TableOrder) : TableOrder[k] = label
    THEN CHOOSE k \in 1..Len(TableOrder) : TableOrder[k] = label
    ELSE 0

\* what detect_fraud_indicators adds to the score with a label
DetectWeight(label) ==
    IF label \in {"DUPLICATE_ADDRESS", "SHORT_LIVED"} THEN 2
    ELSE IF label \in {"HIGH_VOLUME_LICENSEE", "COVID_ERA_LICENSE"} THEN 1
    ELSE 0

RECURSIVE SumOfWeights(_)
SumOfWeights(labels) ==
    IF labels = <<>> THEN 0
    ELSE DetectWeight(Head(labels)) + SumOfWeights(Tail(labels))

\* C12: at every step of detect_fraud_indicators the flag list of every record
\* holds labels of the table only, in table order and none twice, and holds a
\* label iff that label's weight has been added to the record's score.
C12_FlagsOrderedOnceAndScored ==
    \A i \in 1..Len(df) :
       LET flags == df[i].fraud_flags
       IN  /\ \A k \in 1..Len(flags) : Rank(flags[k]) > 0
           /\ \A j, k \in 1..Len(flags) : j < k => Rank(flags[j]) < Rank(flags[k])
           /\ df[i].fraud_score = SumOfWeights(flags)

\* detect_fraud_indicators has returned a record carrying all four of its flags
C12_Witness ==
    /\ DetectFinished
    /\ \E i \in 1..Len(df) :
          df[i].fraud_flags = <<"DUPLICATE_ADDRESS", "HIGH_VOLUME_LICENSEE",
                                "COVID_ERA_LICENSE", "SHORT_LIVED">>

\* the label is among the flags of a scored record
Flagged(r, label) == \E k \in 1..Len(r.fraud_flags) : r.fraud_flags[k] = label

\* C13: a record receives SHORT_LIVED iff its status is CLOSED, its
\* license-start year is >= 2020 and its months_operated is present (both
\* dates valid, closure not before the start) and below 24; a record whose
\* closure precedes its license start never receives it.
C13_ShortLivedOnlyForValidSpan ==
    DetectReturned =>
      \A i \in 1..Len(df) :
         /\ Flagged(df[i], "SHORT_LIVED") <=> "SHORT_LIVED" \in SpecHolds(combined, i)
         /\ ( /\ ~IsNull(StartOf(combined[i])) /\ ~IsNull(ClosureOf(combined[i]))
              /\ DayNumber(ClosureOf(combined[i])) < DayNumber(StartOf(combined[i])) )
            => ~Flagged(df[i], "SHORT_LIVED")

\* the record's license-start date parses and falls in 2020, 2021 or 2022
CovidYear(r) == ~IsNull(StartOf(r)) /\ StartOf(r)[1] \in {2020, 2021, 2022}

\* what the indicators other than COVID_ERA_LICENSE add to fraud_score
DetectOthers(i) ==
    LET holds == DetectHolds(combined, i)
    IN  2 * B("DUPLICATE_ADDRESS" \in holds) + B("HIGH_VOLUME_LICENSEE" \in holds)
        + 2 * B("SHORT_LIVED" \in holds)

\* what the indicators other than COVID_ERA_LICENSE add to risk_score
ReportOthers(i) ==
    LET holds == ReportHolds(ddf, i)
    IN  2 * B("CLOSED_OR_INACTIVE" \in holds) + 3 * B("SHORT_LIVED" \in holds)
        + 2 * B("SHARED_PHONE" \in holds) + B("GENERIC_NAME" \in holds)

\* what both statements of C14 say of detect_fraud_indicators
CovidEraInDetect ==
    DetectReturned =>
      \A i \in 1..Len(df) :
         /\ Flagged(df[i], "COVID_ERA_LICENSE") <=> CovidYear(combined[i])
         /\ df[i].fraud_score = B(CovidYear(combined[i])) + DetectOthers(i)

\* C14 as the spec states it: COVID_ERA_LICENSE is triggered, adding exactly
\* +1, iff the license-start year is 2020, 2021 or 2022, whatever the status,
\* and never for a missing or unparseable license-start date.
C14_CovidEraAddsOne ==
    /\ CovidEraInDetect
    /\ ReportFinished =>
         \A i \in 1..Len(rdf) :
            rdf[i].risk_score = B(CovidYear(ddf[i])) + ReportOthers(i)

\* C14, amended: the trigger is as stated in both scorers; it adds +1 to
\* fraud_score in detect_fraud_indicators and +2 to risk_score in
\* generate_investigation_report.
C14_CovidEraAddsOneOrTwo ==
    /\ CovidEraInDetect
    /\ ReportFinished =>
         \A i \in 1..Len(rdf) :
            rdf[i].risk_score = 2 * B(CovidYear(ddf[i])) + ReportOthers(i)

\* both scorers have run over a licensed and a closed record of the COVID
\* years, a record licensed before 2020 and a record whose date does not parse
C14_Witness ==
    /\ DetectFinished /\ ReportFinished
    /\ \E i \in 1..Len(df) :
          /\ StatusOf(combined[i]) = TextLICENSED
          /\ Flagged(df[i], "COVID_ERA_LICENSE") /\ rdf[i].risk_score = 2
    /\ \E i \in 1..Len(df) :
          /\ StatusOf(combined[i]) = TextCLOSED
          /\ Flagged(df[i], "COVID_ERA_LICENSE")
    /\ \E i \in 1..Len(df) :
          /\ ~IsNull(StartOf(combined[i])) /\ StartOf(combined[i])[1] < 2020
          /\ ~Flagged(df[i], "COVID_ERA_LICENSE")
    /\ \E i \in 1..Len(df) :
          /\ combined[i].license_first_date # NaN /\ IsNull(StartOf(combined[i]))
          /\ ~Flagged(df[i], "COVID_ERA_LICENSE") /\ rdf[i].risk_score = 0

\* the size of the licensee group of row i of the input of detect_fraud_indicators
LicenseeGroupSize(i) == Cardinality(SharingLicensee(combined, i))

\* row i of the input is among the rows written as multi-facility evidence
ReportedMultiFacility(i) ==
    \E j \in 1..Len(multi_lic_facilities) : multi_lic_facilities[j].idx = i

\* what the indicators other than HIGH_VOLUME_LICENSEE add to fraud_score
DetectOthersThanHighVolume(i) ==
    LET holds == DetectHolds(combined, i)
    IN  2 * B("DUPLICATE_ADDRESS" \in holds) + B("COVID_ERA_LICENSE" \in holds)
        + 2 * B("SHORT_LIVED" \in holds)

\* C15: HIGH_VOLUME_LICENSEE is given to a record, and adds 1 to its score,
\* iff at least 5 records of the input share its licensee key; the records of
\* licensees with 3 or 4 records are written as multi-facility evidence and
\* score nothing for it, and those of licensees with 1 or 2 records are
\* neither written nor scored.
C15_HighVolumeFromFiveReportedFromThree ==
    DetectReturned =>
      \A i \in 1..Len(df) :
         /\ Flagged(df[i], "HIGH_VOLUME_LICENSEE") <=> LicenseeGroupSize(i) >= 5
         /\ df[i].fraud_score = B(LicenseeGroupSize(i) >= 5) + DetectOthersThanHighVolume(i)
         /\ ReportedMultiFacility(i) <=> LicenseeGroupSize(i) >= 3

\* detect_fraud_indicators has returned for an input with a licensee of three
\* or four records, all written as evidence and none flagged, beside a record
\* of a smaller group that is not written
C15_Witness ==
    /\ DetectReturned
    /\ \E i, j \in 1..Len(df) :
          /\ LicenseeGroupSize(i) \in {3, 4}
          /\ ReportedMultiFacility(i)
          /\ ~Flagged(df[i], "HIGH_VOLUME_LICENSEE")
          /\ LicenseeGroupSize(j) \in {1, 2}
          /\ ~ReportedMultiFacility(j)

\* rows i and j of a frame are co-located: their address keys are equal and
\* neither missing nor empty
CoLocated(frame, i, j) ==
    LET k == AddressKey(frame[i])
    IN  k # NaN /\ k # <<>> /\ AddressKey(frame[j]) = k

\* what the indicators other than DUPLICATE_ADDRESS add to fraud_score
DetectOthersThanDuplicateAddress(i) ==
    LET holds == DetectHolds(combined, i)
    IN  B("HIGH_VOLUME_LICENSEE" \in holds) + B("COVID_ERA_LICENSE" \in holds)
        + 2 * B("SHORT_LIVED" \in holds)

\* C16: DUPLICATE_ADDRESS is given to a record, and adds 2 to its score, iff
\* another record of the input has an equal, non-empty address key; a record
\* whose address key is missing is co-located with nothing, not even with
\* another record without a key.
C16_DuplicateAddressIffCoLocated ==
    DetectReturned =>
      \A i \in 1..Len(df) :
         LET shared == \E j \in 1..Len(df) : j # i /\ CoLocated(combined, i, j)
         IN  /\ Flagged(df[i], "DUPLICATE_ADDRESS") <=> shared
             /\ df[i].fraud_score = 2 * B(shared) + DetectOthersThanDuplicateAddress(i)
             /\ AddressKey(combined[i]) = NaN => ~Flagged(df[i], "DUPLICATE_ADDRESS")

\* detect_fraud_indicators has returned for an input with two records without
\* an address key, neither flagged, beside two co-located records, both flagged
C16_Witness ==
    /\ DetectReturned
    /\ \E i, j, k, l \in 1..Len(df) :
          /\ i # j /\ k # l
          /\ AddressKey(combined[i]) = NaN /\ AddressKey(combined[j]) = NaN
          /\ ~Flagged(df[i], "DUPLICATE_ADDRESS") /\ ~Flagged(df[j], "DUPLICATE_ADDRESS")
          /\ CoLocated(combined, k, l)
          /\ Flagged(df[k], "DUPLICATE_ADDRESS") /\ Flagged(df[l], "DUPLICATE_ADDRESS")

\* the digit characters of a raw phone cell, none for a missing one
RawDigits(phone) == IF phone = NaN THEN <<>> ELSE SelectSeq(phone, IsDigit)

\* C17: the phone key keeps only the digit characters of the raw phone; a
\* record whose raw phone has fewer than 10 digits, a missing phone included,
\* joins no phone cluster and never receives SHARED_PHONE, however many
\* records have the same short or missing phone.
C17_ShortOrMissingPhoneNeverShared ==
    PhonesAnalyzed =>
      \A i \in 1..Len(ddf) :
         LET digits == RawDigits(ddf[i].facility_telephone_number)
         IN  /\ Len(digits) >= 10 => ddf[i].phone_clean = digits
             /\ Len(digits) < 10 => /\ ~ddf[i].flag_shared_phone
                                    /\ Cardinality(PhoneGroup(i)) <= 1

\* a text without leading, trailing or doubled spaces
Tidy(s) ==
    /\ s = <<>> \/ (~IsSpace(s[1]) /\ ~IsSpace(s[Len(s)]))
    /\ \A k \in 1..(Len(s) - 1) : ~(IsSpace(s[k]) /\ IsSpace(s[k + 1]))

\* what is left of a raw street address once letter case, periods, commas,
\* whitespace runs and outer whitespace are set aside
StreetClass(address) ==
    IF address = NaN THEN NaN
    ELSE StrStrip(StrCollapseWs(StrRemove(StrRemove(StrUpper(address), "."), ",")))

\* C18: the address key is canonical: its street part has no leading,
\* trailing or doubled spaces, and two raw addresses of one city that differ
\* only in letter case, whitespace runs, periods, commas or outer whitespace
\* have the same key.
C18_AddressKeyCanonical ==
    DetectReturned =>
      \A i \in 1..Len(df) :
         df[i].address_normalized # NaN =>
            /\ Tidy(df[i].address_normalized)
            /\ \A j \in 1..Len(df) :
                  /\ StreetClass(combined[j].facility_address)
                        = StreetClass(combined[i].facility_address)
                  /\ combined[j].facility_city # NaN /\ combined[i].facility_city # NaN
                  /\ StrStrip(StrUpper(combined[j].facility_city))
                        = StrStrip(StrUpper(combined[i].facility_city))
                  => df[j].full_address = df[i].full_address

\* the address key of a registry row as C19 states it: street part and city
\* joined when both are present, the normalised form of the one present when
\* the other is missing, no key when both are
TotalAddressKey(r) ==
    LET street == NormalizeAddress(r.facility_address)
        city == StrStrip(StrUpper(r.facility_city))
    IN  IF street # NaN /\ city # NaN THEN street \o <<",", " ">> \o city
        ELSE IF street # NaN THEN street
        ELSE IF city # NaN THEN city
        ELSE NaN

\* C19: computing the address keys never raises, and a record whose street
\* address or city is missing gets the normalised form of the other field as
\* its key.
C19_AddressKeyTotal ==
    [][pc = <<"detect">>
       => /\ pc' = <<"flag1">>
          /\ Len(df') = Len(combined)
          /\ \A i \in 1..Len(combined) : df'[i].full_address = TotalAddressKey(combined[i])]_vars

\* analyze_licensee_patterns has returned its frame
LicenseesAnalyzed ==
    /\ pc \in {<<"geography">>, <<"cacfp">>, <<"report">>, <<"deep_done">>, <<"deep_raised">>}
    /\ \A i \in 1..Len(ddf) : "possible_person" \in DOMAIN ddf[i]

\* the business suffixes C20 lists
SuffixWords ==
    {<<"L", "L", "C">>,
     <<"I", "N", "C">>,
     <<"I", "N", "C", ".">>,
     <<"C", "O", "R", "P">>,
     <<"C", "O", "R", "P", "O", "R", "A", "T", "I", "O", "N">>,
     <<"L", ".", "L", ".", "C", ".">>,
     <<"L", ".", "L", ".", "C">>}

\* the name ends with the word w
EndsWithWord(name, w) ==
    /\ Len(name) > Len(w)
    /\ MatchAt(name, Len(name) - Len(w) + 1, w)
    /\ IsSpace(name[Len(name) - Len(w)])

\* the uppercased name without its business suffix, nothing else removed
WithoutSuffix(licensee) ==
    LET name == StrStrip(StrUpper(licensee))
        found == {w \in SuffixWords : EndsWithWord(name, w)}
    IN  IF found = {} THEN name
        ELSE LET w == CHOOSE v \in found : \A u \in found : Len(u) <= Len(v)
             IN  StrStrip(SubSeq(name, 1, Len(name) - Len(w)))

\* the person token as C20 states it
PersonToken(licensee) ==
    IF licensee = NaN THEN NaN
    ELSE LET rest == WithoutSuffix(licensee)
         IN  IF Contains(rest, <<",">>) \/ TokenCount(rest) <= 3 THEN rest ELSE NaN

\* C20: the person token of a missing licensee is null; otherwise it is the
\* uppercased name with its business suffix removed and trimmed when that
\* remainder holds a comma or at most 3 tokens, null otherwise; nothing but
\* the suffix is removed and no punctuation of the suffix is left behind.
C20_PersonTokenIsNameWithoutSuffix ==
    LicenseesAnalyzed =>
      \A i \in 1..Len(ddf) : ddf[i].possible_person = PersonToken(ddf[i].licensee)

\* the cluster dimensions row i of a frame of registry rows triggers in
CoLocatedRow(frame, i) == Cardinality(SharingAddress(frame, i)) >= 2

CoLicensedRow(frame, i) == Cardinality(SharingLicensee(frame, i)) >= 5

CoPhonedRow(frame, i) == Cardinality(SharingPhone(frame, i)) >= 3

\* what detect_fraud_indicators adds for the indicators that are no cluster
DetectUnclustered(i) ==
    LET holds == DetectHolds(combined, i)
    IN  B("COVID_ERA_LICENSE" \in holds) + 2 * B("SHORT_LIVED" \in holds)

\* what generate_investigation_report adds for the indicators that are no
\* cluster
ReportUnclustered(i) ==
    LET holds == ReportHolds(ddf, i)
    IN  2 * B("COVID_ERA_LICENSE" \in holds) + 2 * B("CLOSED_OR_INACTIVE" \in holds)
        + 3 * B("SHORT_LIVED" \in holds) + B("GENERIC_NAME" \in holds)

\* C21 as the spec states it: a record's score holds the weights of all the
\* cluster dimensions it triggers in, address 2, licensee 1 and phone 2, so a
\* co-phoned and co-licensed record accumulates both.
C21_AllClusterDimensionsAccumulate ==
    /\ DetectReturned =>
         \A i \in 1..Len(df) :
            df[i].fraud_score = 2 * B(CoLocatedRow(combined, i)) + B(CoLicensedRow(combined, i))
                                + 2 * B(CoPhonedRow(combined, i)) + DetectUnclustered(i)
    /\ ReportFinished =>
         \A i \in 1..Len(rdf) :
            rdf[i].risk_score = 2 * B(CoLocatedRow(ddf, i)) + B(CoLicensedRow(ddf, i))
                                + 2 * B(CoPhonedRow(ddf, i)) + ReportUnclustered(i)

\* C21, amended: each scorer accumulates the cluster dimensions it evaluates,
\* none suppressing another: detect_fraud_indicators adds 2 and its flag for
\* the address and 1 and its flag for the licensee, whatever the phone;
\* generate_investigation_report adds 2 for the phone, whatever the address
\* and the licensee.
C21_ClusterDimensionsAccumulatePerScorer ==
    /\ DetectReturned =>
         \A i \in 1..Len(df) :
            /\ Flagged(df[i], "DUPLICATE_ADDRESS") <=> CoLocatedRow(combined, i)
            /\ Flagged(df[i], "HIGH_VOLUME_LICENSEE") <=> CoLicensedRow(combined, i)
            /\ df[i].fraud_score = 2 * B(CoLocatedRow(combined, i))
                                   + B(CoLicensedRow(combined, i)) + DetectUnclustered(i)
    /\ ReportFinished =>
         \A i \in 1..Len(rdf) :
            rdf[i].risk_score = 2 * B(CoPhonedRow(ddf, i)) + ReportUnclustered(i)

\* both programs have finished on an input with a record that is co-located,
\* co-licensed and co-phoned: it carries both flags of detect_fraud_indicators
C21_Witness ==
    /\ ReportFinished /\ error.ca = ""
    /\ \E i \in 1..Len(df) :
          /\ CoLocatedRow(combined, i) /\ CoLicensedRow(combined, i) /\ CoPhonedRow(ddf, i)
          /\ Flagged(df[i], "DUPLICATE_ADDRESS") /\ Flagged(df[i], "HIGH_VOLUME_LICENSEE")
          /\ df[i].fraud_score >= 3
          /\ rdf[i].risk_score >= 2

\* the steps that read only dates, capacities, phones and statuses
StepsOnDatesCapacityPhoneStatus ==
    {<<"analyze">>, <<"flag3">>, <<"flag4">>, <<"phones">>, <<"report">>}

\* no indicator of detect_fraud_indicators that depends on an absent date or
\* status is triggered
AbsentFieldsTriggerNothing ==
    DetectReturned =>
      \A i \in 1..Len(df) :
         /\ IsNull(StartOf(combined[i]))
            => ~Flagged(df[i], "COVID_ERA_LICENSE") /\ ~Flagged(df[i], "SHORT_LIVED")
         /\ IsNull(ClosureOf(combined[i])) \/ combined[i].facility_status = NaN
            => ~Flagged(df[i], "SHORT_LIVED")

\* C22: a missing or unparseable license-start date, closure date, capacity,
\* phone or status never aborts the run; the field counts as absent and no
\* indicator that depends on it is triggered for the record.
C22_MalformedFieldsNeverAbort ==
    [][/\ (pc \in StepsOnDatesCapacityPhoneStatus)
             => (pc' \notin {<<"ca_raised">>, <<"deep_raised">>})
       /\ AbsentFieldsTriggerNothing']_vars

\* the threshold the run was started with is a number and not negative
ValidThreshold ==
    /\ "number" \in DOMAIN capacity_threshold
    /\ capacity_threshold.number >= 0

\* C23: a run started with a negative or non-numeric threshold is rejected
\* with a configuration error before any record is filtered or scored and
\* before any output is produced.
C23_BadThresholdRejectedBeforeRun ==
    ~ValidThreshold =>
       /\ files = {}
       /\ combined = <<>> /\ low_capacity = <<>> /\ df = <<>> /\ high_risk = <<>>
       /\ error.ca \in {"", "ConfigurationError"}

\* C24: the indicators of detect_fraud_indicators can be evaluated in any
\* order: every order ends, and gives every record the trigger decisions and
\* the score of the sequential order, the labels in whatever order.
C24_IndicatorsOrderIndependent ==
    /\ error.ca # "KeyError"
    /\ DetectReturned =>
         \A i \in 1..Len(df) :
            LET holds == DetectHolds(combined, i)
            IN  /\ {df[i].fraud_flags[k] : k \in 1..Len(df[i].fraud_flags)} = holds
                /\ Len(df[i].fraud_flags) = Cardinality(holds)
                /\ df[i].fraud_score = SumOfWeights(df[i].fraud_flags)

\* the steps of detect_fraud_indicators
DetectSteps ==
    {<<"detect">>, <<"flag1">>, <<"flag2">>, <<"flag3">>, <<"flag4">>, <<"high_risk">>}

\* C25: scoring and tier building never mutate their input: no step of
\* detect_fraud_indicators changes the caller's frame (records, field values,
\* order), the high-risk tier is taken without changing the scored frame,
\* generate_investigation_report leaves the frame it is given unchanged, the
\* low-capacity tier is taken without changing the combined frame it is
\* filtered from, and a tier that has been built is not changed by building
\* another one.
C25_TiersAndScoringLeaveInputUnchanged ==
    [][/\ (pc \in DetectSteps) => (combined' = combined)
       /\ (pc = <<"high_risk">>) => (df' = df)
       /\ (pc = <<"report">>) => (ddf' = ddf)
       /\ (pc = <<"analyze">> /\ pc' = <<"returned_pair">>)
             => (/\ all_facilities' = all_facilities
                 /\ combined' = CoerceCapacity(Concat(all_facilities))
                 /\ Len(combined') = Len(Flatten(all_facilities)))
       /\ (low_capacity # <<>>) => (low_capacity' = low_capacity)
       /\ (suspicious # <<>>) => (suspicious' = suspicious)
       /\ (licensed_low_cap # <<>>) => (licensed_low_cap' = licensed_low_cap)
       /\ (multi_lic_facilities # <<>>) => (multi_lic_facilities' = multi_lic_facilities)
       /\ (short_lived # <<>>) => (short_lived' = short_lived)
       /\ (high_risk # <<>>) => (high_risk' = high_risk)]_vars

C25_Witness ==
    /\ pc = <<"deep_done">>
    /\ combined # <<>> /\ combined # df
    /\ low_capacity # <<>> /\ suspicious # <<>> /\ licensed_low_cap # <<>>
    /\ short_lived # <<>> /\ high_risk # <<>>
    /\ ddf # <<>> /\ rdf # ddf

\* C26: scores are recomputed from scratch: before the first indicator of
\* detect_fraud_indicators is evaluated every record has score 0 and no flag,
\* detect_fraud_indicators applied to the frame it returned gives every record
\* the score and the flags it had, and generate_investigation_report applied to
\* a frame that has a risk_score column gives every record the risk score it
\* gives it without.
C26_ScoresRecomputedFromScratch ==
    /\ (pc = <<"flag1">>) =>
          \A i \in 1..Len(df) : df[i].fraud_score = 0 /\ df[i].fraud_flags = <<>>
    /\ DetectReturned =>
          LET again == DetectFraudIndicators(df)
          IN  /\ Len(again) = Len(df)
              /\ \A i \in 1..Len(df) :
                    /\ again[i].fraud_score = df[i].fraud_score
                    /\ again[i].fraud_flags = df[i].fraud_flags
    /\ (pc = <<"deep_done">>) =>
          LET again == RiskScored(rdf)
          IN  /\ Len(again) = Len(rdf)
              /\ \A i \in 1..Len(rdf) : again[i].risk_score = rdf[i].risk_score

C26_Witness ==
    /\ DetectReturned
    /\ \E i \in 1..Len(df) :
          /\ Flagged(df[i], "SHORT_LIVED") /\ Flagged(df[i], "COVID_ERA_LICENSE")
          /\ df[i].fraud_score >= 3
    /\ \E i \in 1..Len(df) : Flagged(df[i], "DUPLICATE_ADDRESS")
    /\ \E i \in 1..Len(df) : df[i].fraud_score = 0

\* the scores of the copy at a state: zero before the first indicator, in
\* 0..6 ever after, and 3 or more in the high-risk set only with
\* DUPLICATE_ADDRESS or SHORT_LIVED
ScoresInRange ==
    /\ (pc = <<"flag1">>) => \A i \in 1..Len(df) : df[i].fraud_score = 0
    /\ \A i \in 1..Len(df) : df[i].fraud_score \in 0..6
    /\ \A k \in 1..Len(high_risk) :
          /\ high_risk[k].fraud_score >= 3
          /\ \/ Flagged(high_risk[k], "DUPLICATE_ADDRESS")
             \/ Flagged(high_risk[k], "SHORT_LIVED")
    /\ DetectReturned =>
          \A i \in 1..Len(df) :
             (df[i].fraud_score >= 3) =>
                 /\ \E k \in 1..Len(high_risk) :
                       high_risk[k].full_address = df[i].full_address
                 /\ \/ Flagged(df[i], "DUPLICATE_ADDRESS")
                    \/ Flagged(df[i], "SHORT_LIVED")

\* C27: in detect_fraud_indicators every score is 0 at initialisation, no
\* indicator stage lowers the score of a record, every score ends in 0..6, and
\* a record is in the high-risk set (score >= 3) only if it carries
\* DUPLICATE_ADDRESS or SHORT_LIVED.
C27_ScoreMonotoneAndBounded ==
    [][/\ (pc \in {<<"flag1">>, <<"flag2">>, <<"flag3">>, <<"flag4">>}
              /\ pc' # <<"ca_raised">>)
          => (/\ Len(df') = Len(df)
              /\ \A i \in 1..Len(df) : df'[i].fraud_score >= df[i].fraud_score)
       /\ ScoresInRange']_vars

C27_Witness ==
    /\ DetectReturned
    /\ \E i \in 1..Len(df) : df[i].fraud_score = 6
    /\ high_risk # <<>>

\* the stages of main between load_data and generate_investigation_report
AnalysisStages == {<<"phones">>, <<"licensees">>, <<"geography">>, <<"cacfp">>}

\* C28: in the deep-analysis run generate_investigation_report executes iff
\* load_data returned a non-empty record set: every analysis stage entered
\* hands on to the next one up to the report, the report starts with the
\* flag_shared_phone and generic_name_flag columns in place whatever the CACFP
\* download gave, and after an empty load no stage runs and no report exists.
C28_ReportRunsIffDataLoaded ==
    [][/\ (pc \in AnalysisStages) => (pc' \in AnalysisStages \cup {<<"report">>})
       /\ (pc' = <<"report">>) =>
             /\ ddf' # <<>>
             /\ cacfp' \in {"workbook", "None"}
             /\ \A i \in 1..Len(ddf') :
                   {"flag_shared_phone", "generic_name_flag"} \subseteq DOMAIN ddf'[i]
       /\ (pc' = <<"deep_returned">>) =>
             /\ ddf' = <<>> /\ rdf' = <<>> /\ investigation_report' = <<>>
             /\ pc \notin AnalysisStages]_vars

\* the position and the collected reports of check_facility_reports: the
\* indices requested are 0, 1, ... in ascending order, never more than 5, all
\* of 0..4 once it has returned, and the reports are at most 5 with strictly
\* ascending report_index among the requested indices
ProbingInOrder ==
    /\ Len(requested) = inx /\ inx <= 5
    /\ \A k \in 1..Len(requested) : requested[k] = k - 1
    /\ returned => requested = <<0, 1, 2, 3, 4>>
    /\ Len(reports_found) <= 5
    /\ \A k \in 1..Len(reports_found) : reports_found[k].report_index \in 0..(inx - 1)
    /\ \A j, k \in 1..Len(reports_found) :
          (j < k) => (reports_found[j].report_index < reports_found[k].report_index)

\* C29: check_facility_reports always terminates, after probing exactly the
\* report indices 0..4 in ascending order whatever each request gives, and
\* returns at most 5 reports with distinct, ascending report_index.
C29_ProbesFiveIndicesAndTerminates ==
    []ProbingInOrder /\ <>returned

C29_Witness ==
    /\ returned
    /\ Len(reports_found) \in 1..3
    /\ reports_found[1].report_index > 0

\* the rows of the scored frame that the groups of the map hold together
\* with row i
MapGroupOf(i) ==
    {j \in 1..Len(df) :
        \E g \in suspicious_addresses :
           /\ \E k \in 1..Len(g.facility_numbers) : g.facility_numbers[k] = df[i].idx
           /\ \E k \in 1..Len(g.facility_numbers) : g.facility_numbers[k] = df[j].idx}

\* C30: the groups of create_address_network_map are the address clusters of
\* detect_fraud_indicators: two records flagged DUPLICATE_ADDRESS are in one
\* group iff they have the same address key (normalized street plus city),
\* and a group is marked as having different licensees iff the uppercased,
\* trimmed licensee names of its members are not all the same.
C30_MapGroupsAreAddressClusters ==
    (pc = <<"map_done">>) =>
        /\ \A i, j \in 1..Len(df) :
              (DuplicateAddressMask(df, i) /\ DuplicateAddressMask(df, j))
                 => ((j \in MapGroupOf(i)) <=> (df[i].full_address = df[j].full_address))
        /\ \A g \in suspicious_addresses :
              g.different_licensees <=>
                 \E m, n \in 1..Len(g.licensees) :
                    /\ g.licensees[m] # NaN /\ g.licensees[n] # NaN
                    /\ NormalizeLicensee(g.licensees[m]) # NormalizeLicensee(g.licensees[n])

====
